---- MODULE Spec2Model ----
(***************************************************************************)
(* Model of the board-game rules engine of app/domain: the value objects   *)
(* (Money, Position), Player, the property repository behind Board,        *)
(* GameState and GameEngine.  Money is modelled by its integer amount and  *)
(* Position by its integer value.  The amounts of GameConfig are scaled    *)
(* down (see the bounds below); the rules are those of the source.         *)
(***************************************************************************)
EXTENDS Integers, Sequences, FiniteSets, TLC

(* ------------------------------ bounds -------------------------------- *)
\* number of properties on the board (GameConfig.NUM_PROPERTIES, scaled down)
BoardSize == 4
\* GameConfig.MAX_ROUNDS, scaled down
MaxRounds == 4
\* GameConfig.INITIAL_BALANCE, scaled down
InitialBalance == 2
\* GameConfig.ROUND_SALARY, scaled down
RoundSalary == 1
\* DemandingStrategy.rent_threshold, scaled down
DemandingThreshold == 1
\* CautiousStrategy.reserve_threshold, scaled down
CautiousReserve == 1
\* number of direct calls of play_turn / play_round / check_victory_condition
\* a client makes on one engine
MaxCalls == 1

(* ------------------------------ inputs -------------------------------- *)
None == 0
\* the roster handed to GameEngine: players are named by their roster index
Players == 1..3
NumPlayers == Cardinality(Players)
Positions == 0..(BoardSize - 1)
\* the values the dice roller returns (1..6 in the source)
Dice == 1..2
Strategies == {"impulsive", "demanding", "cautious", "random"}
\* the (cost, rent) pairs the board generator draws from (cost > 0, rent >= 0)
PropertyKinds == { [cost |-> 1, rent |-> 1], [cost |-> 2, rent |-> 2] }
\* the boards played: any property kind at any position
Boards == [Positions -> PropertyKinds]
\* PlayerFactory.create_default_players: one player per strategy, in this order
DefaultRoster == <<"impulsive", "demanding", "cautious", "random">>
\* the rosters played: NumPlayers consecutive players of the default roster
Rosters ==
  { [p \in Players |-> DefaultRoster[p + k]] : k \in 0..(Len(DefaultRoster) - NumPlayers) }

VARIABLES
  strategy,     \* Player.strategy, per player
  balance,      \* Player.balance (Money.amount), per player
  position,     \* Player.position (Position.value), per player
  owned,        \* Player.properties: list of the properties bought, per player
  is_active,    \* Player.is_active, per player
  properties,   \* InMemoryPropertyRepository._properties: position -> (cost, rent)
  owners,       \* InMemoryPropertyRepository._owners: position -> player or None
  round_count,  \* GameState.round_count
  winner,       \* GameState.winner (None = 0)
  game_over,    \* GameState.game_over
  op,           \* the engine operation in progress: "none", "play_round", "play_game"
  pc,           \* the position inside it
  snapshot,     \* play_round's local active_players
  idx,          \* play_round's loop position in snapshot (1-based)
  last,         \* the last completed step: operation, its arguments and return value
  calls,        \* direct client calls made so far
  sim           \* GameSimulator.run_batch_simulation: futures and accumulators

vars == <<strategy, balance, position, owned, is_active, properties, owners,
          round_count, winner, game_over, op, pc, snapshot, idx, last, calls, sim>>

(* ---------------------------- value objects --------------------------- *)
\* a move that tests the wrap with > instead of >=
PositionMove_StrictWrap(value, steps, board_size) ==
  LET new_value == (value + steps) % board_size
  IN  [value |-> new_value,
       completed_round |-> (new_value < value) \/ (value + steps > board_size)]

\* a move that only tests new_value < value
PositionMove_OnlyLess(value, steps, board_size) ==
  LET new_value == (value + steps) % board_size
  IN  [value |-> new_value,
       completed_round |-> new_value < value]

\* a move that wraps one position late
PositionMove_LateWrap(value, steps, board_size) ==
  LET new_value == (value + steps) % (board_size + 1)
  IN  [value |-> new_value,
       completed_round |-> (new_value < value) \/ (value + steps >= board_size + 1)]

\* Position.move for steps > 0, board_size > 0
PositionMove(value, steps, board_size) ==
  LET new_value == (value + steps) % board_size
  IN  [value |-> new_value,
       completed_round |-> (new_value < value) \/ (value + steps >= board_size)]

\* Position.move with its argument checks: an error (ValueError) for
\* steps <= 0 or board_size <= 0, else the new value and the completed flag
PositionMoveOrError(value, steps, board_size) ==
  IF steps <= 0 \/ board_size <= 0
  THEN [error |-> TRUE]
  ELSE [error |-> FALSE,
        value |-> PositionMove(value, steps, board_size).value,
        completed_round |-> PositionMove(value, steps, board_size).completed_round]

(* ------------------------------ strategies ---------------------------- *)
\* a demanding strategy that also buys at rent equal to the threshold
ShouldBuy_DemandingAtThreshold(strat, bal, prop, rnd) ==
  CASE strat = "impulsive" -> TRUE
    [] strat = "demanding" -> prop.rent >= DemandingThreshold
    [] strat = "cautious"  -> bal - prop.cost >= CautiousReserve
    [] strat = "random"    -> rnd

\* PurchaseStrategy.should_buy; rnd is the outcome of random.random() < 0.5
ShouldBuy(strat, bal, prop, rnd) ==
  CASE strat = "impulsive" -> TRUE
    [] strat = "demanding" -> prop.rent > DemandingThreshold
    [] strat = "cautious"  -> bal - prop.cost >= CautiousReserve
    [] strat = "random"    -> rnd

(* ---------------------- the mutable game, as a record ----------------- *)
Game == [balance |-> balance, position |-> position, owned |-> owned,
         is_active |-> is_active, owners |-> owners]

\* a move that credits the salary whether or not a round was completed
PlayerMove_SalaryEveryMove(g, p, steps) ==
  LET m == PositionMove(g.position[p], steps, BoardSize)
  IN  [g EXCEPT !.position[p] = m.value,
                !.balance[p] = @ + RoundSalary]

\* Player.move
PlayerMove(g, p, steps) ==
  LET m == PositionMove(g.position[p], steps, BoardSize)
  IN  [g EXCEPT !.position[p] = m.value,
                !.balance[p] = IF m.completed_round THEN @ + RoundSalary ELSE @]

\* a can_buy that lets the player buy on credit
CanBuy_OnCredit(g, p, cost) == TRUE

\* Player.can_buy
CanBuy(g, p, cost) == g.balance[p] >= cost

\* buy_property that asks the strategy before the affordability check
StrategyConsulted_Always(g, p, prop) == TRUE

\* Player.buy_property: whether the call reaches strategy.should_buy
StrategyConsulted(g, p, prop) == CanBuy(g, p, prop.cost)

\* Player.buy_property: the return value
BuyPropertyRet(g, p, prop, rnd) ==
  CanBuy(g, p, prop.cost) /\ ShouldBuy(strategy[p], g.balance[p], prop, rnd)

\* buy_property that forgets the debit
BuyProperty_NoDebit(g, p, prop, rnd) ==
  IF CanBuy(g, p, prop.cost) /\ ShouldBuy(strategy[p], g.balance[p], prop, rnd)
  THEN [g EXCEPT !.owned[p] = Append(@, prop)]
  ELSE g

\* Player.buy_property: the effect on the player
BuyProperty(g, p, prop, rnd) ==
  IF BuyPropertyRet(g, p, prop, rnd)
  THEN [g EXCEPT !.balance[p] = @ - prop.cost,
                 !.owned[p] = Append(@, prop)]
  ELSE g

\* pay_rent that eliminates at a balance of zero
PayRent_InactiveAtZero(g, p, amount) ==
  LET b == g.balance[p] - amount
  IN  [g EXCEPT !.balance[p] = b,
                !.is_active[p] = IF b <= 0 THEN FALSE ELSE @]

\* Player.pay_rent
PayRent(g, p, amount) ==
  LET b == g.balance[p] - amount
  IN  [g EXCEPT !.balance[p] = b,
                !.is_active[p] = IF b < 0 THEN FALSE ELSE @]

\* a receive_rent that credits nothing
ReceiveRent_Nothing(g, p, amount) == g

\* Player.receive_rent
ReceiveRent(g, p, amount) == [g EXCEPT !.balance[p] = @ + amount]

\* _handle_property_landing that credits the owner without looking at is_active
HandlePropertyLanding_AlwaysCredit(g, p, rnd) ==
  LET pos   == g.position[p]
      prop  == properties[pos]
      owner == g.owners[pos]
  IN  IF owner = None
      THEN IF CanBuy(g, p, prop.cost) /\ ShouldBuy(strategy[p], g.balance[p], prop, rnd)
           THEN [g EXCEPT !.balance[p] = @ - prop.cost,
                          !.owned[p] = Append(@, prop),
                          !.owners[pos] = p]
           ELSE g
      ELSE IF owner # p
           THEN [g EXCEPT !.balance[p] = @ - prop.rent,
                          !.is_active[p] = IF g.balance[p] - prop.rent < 0 THEN FALSE ELSE @,
                          !.balance[owner] = @ + prop.rent]
           ELSE g

\* a landing that offers the player its own property once more
HandlePropertyLanding_RebuysOwn(g, p, rnd) ==
  LET pos   == g.position[p]
      prop  == properties[pos]
      owner == g.owners[pos]
  IN  IF owner = None \/ owner = p
      THEN IF BuyPropertyRet(g, p, prop, rnd)
           THEN [BuyProperty(g, p, prop, rnd) EXCEPT !.owners[pos] = p]
           ELSE g
      ELSE LET g1 == PayRent(g, p, prop.rent)
           IN  IF g1.is_active[owner]
               THEN ReceiveRent(g1, owner, prop.rent)
               ELSE g1

\* a landing whose rent is paid by the owner to the player
HandlePropertyLanding_OwnerPays(g, p, rnd) ==
  LET pos   == g.position[p]
      prop  == properties[pos]
      owner == g.owners[pos]
  IN  IF owner = None
      THEN IF BuyPropertyRet(g, p, prop, rnd)
           THEN [BuyProperty(g, p, prop, rnd) EXCEPT !.owners[pos] = p]
           ELSE g
      ELSE IF owner # p
           THEN ReceiveRent(PayRent(g, owner, prop.rent), p, prop.rent)
           ELSE g

\* GameEngine._handle_property_landing
HandlePropertyLanding(g, p, rnd) ==
  LET pos   == g.position[p]
      prop  == properties[pos]
      owner == g.owners[pos]
  IN  IF owner = None
      THEN IF BuyPropertyRet(g, p, prop, rnd)
           THEN [BuyProperty(g, p, prop, rnd) EXCEPT !.owners[pos] = p]
           ELSE g
      ELSE IF owner # p
           THEN LET g1 == PayRent(g, p, prop.rent)
                IN  IF g1.is_active[owner]
                    THEN ReceiveRent(g1, owner, prop.rent)
                    ELSE g1
           ELSE g

\* the first board position, in board order, with the cost and rent of prop
\* (the inner loop of play_turn's release); -1 when there is none
FirstMatch(prop) ==
  LET m == { pos \in Positions : properties[pos].cost = prop.cost
                                 /\ properties[pos].rent = prop.rent }
  IN  IF m = {} THEN -1 ELSE CHOOSE pos \in m : \A q \in m : pos <= q

\* an elimination that releases nothing
ReleaseProperties_Nothing(own, released) == own

\* the release loop of play_turn over the list Player.eliminate returned
RECURSIVE ReleaseProperties(_, _)
ReleaseProperties(own, released) ==
  IF released = <<>> THEN own
  ELSE LET pos == FirstMatch(Head(released))
       IN  ReleaseProperties(IF pos = -1 THEN own ELSE [own EXCEPT ![pos] = None],
                             Tail(released))

\* an elimination that releases the positions recorded as owned by the player
Eliminate_ByOwner(g, p) ==
  [g EXCEPT !.is_active[p] = FALSE,
            !.owned[p] = <<>>,
            !.owners = [pos \in Positions |-> IF @[pos] = p THEN None ELSE @[pos]]]

\* Player.eliminate followed by the release of the returned properties
Eliminate(g, p) ==
  [g EXCEPT !.is_active[p] = FALSE,
            !.owned[p] = <<>>,
            !.owners = ReleaseProperties(@, g.owned[p])]

\* a play_turn without the test of is_active
PlayTurnOp_NoActiveCheck(g, p, steps, rnd) ==
  LET g1 == PlayerMove(g, p, steps)
      g2 == HandlePropertyLanding(g1, p, rnd)
  IN  IF g2.balance[p] < 0 THEN Eliminate(g2, p) ELSE g2

\* a play_turn that credits the salary after the landing and the elimination
PlayTurnOp_SalaryAfterLanding(g, p, steps, rnd) ==
  IF ~g.is_active[p] THEN g
  ELSE LET m  == PositionMove(g.position[p], steps, BoardSize)
           g1 == [g EXCEPT !.position[p] = m.value]
           g2 == HandlePropertyLanding(g1, p, rnd)
           g3 == IF g2.balance[p] < 0 THEN Eliminate(g2, p) ELSE g2
       IN  [g3 EXCEPT !.balance[p] = IF m.completed_round THEN @ + RoundSalary ELSE @]

\* GameEngine.play_turn
PlayTurnOp(g, p, steps, rnd) ==
  IF ~g.is_active[p] THEN g
  ELSE LET g1 == PlayerMove(g, p, steps)
           g2 == HandlePropertyLanding(g1, p, rnd)
       IN  IF g2.balance[p] < 0 THEN Eliminate(g2, p) ELSE g2

(* ------------------------------ game state ---------------------------- *)
RECURSIVE SelectActive(_, _)
SelectActive(act, p) ==
  IF p > NumPlayers THEN <<>>
  ELSE (IF act[p] THEN <<p>> ELSE <<>>) \o SelectActive(act, p + 1)

\* get_active_players that forgets the filter
GetActivePlayers_NoFilter(act) == SelectActive([p \in Players |-> TRUE], 1)

\* GameState.get_active_players: the active players in roster order
GetActivePlayers(act) == SelectActive(act, 1)

\* a maximum that keeps the last maximal element
RECURSIVE MaxByBalance_LastWins(_, _, _)
MaxByBalance_LastWins(bal, seq, best) ==
  IF seq = <<>> THEN best
  ELSE MaxByBalance_LastWins(bal, Tail(seq),
                             IF bal[Head(seq)] >= bal[best] THEN Head(seq) ELSE best)

\* Python's max(active_players, key=balance): the first maximal element
RECURSIVE MaxByBalance(_, _, _)
MaxByBalance(bal, seq, best) ==
  IF seq = <<>> THEN best
  ELSE MaxByBalance(bal, Tail(seq),
                    IF bal[Head(seq)] > bal[best] THEN Head(seq) ELSE best)

\* check_victory_condition that names players[0] the single winner
CheckVictoryCondition_FirstOfRoster(act, bal, rc, w, over) ==
  LET active_players == SelectActive(act, 1)
      num_active == Len(active_players)
  IN  IF over THEN [winner |-> w, game_over |-> TRUE, ret |-> TRUE]
      ELSE IF num_active = 1
           THEN [winner |-> 1, game_over |-> TRUE, ret |-> TRUE]
      ELSE IF num_active = 0
           THEN [winner |-> None, game_over |-> TRUE, ret |-> TRUE]
      ELSE IF rc >= MaxRounds
           THEN [winner |-> MaxByBalance(bal, Tail(active_players), active_players[1]),
                 game_over |-> TRUE, ret |-> TRUE]
      ELSE [winner |-> w, game_over |-> over, ret |-> FALSE]

\* check_victory_condition without the case of no active player
CheckVictoryCondition_NoDrawCase(act, bal, rc, w, over) ==
  LET active_players == SelectActive(act, 1)
      num_active == Len(active_players)
  IN  IF over THEN [winner |-> w, game_over |-> TRUE, ret |-> TRUE]
      ELSE IF num_active = 1
           THEN [winner |-> active_players[1], game_over |-> TRUE, ret |-> TRUE]
      ELSE IF rc >= MaxRounds
           THEN [winner |-> IF num_active = 0 THEN None
                            ELSE MaxByBalance(bal, Tail(active_players), active_players[1]),
                 game_over |-> TRUE, ret |-> TRUE]
      ELSE [winner |-> w, game_over |-> over, ret |-> FALSE]

\* check_victory_condition that names players[0] the winner of a draw
CheckVictoryCondition_DrawNamesFirst(act, bal, rc, w, over) ==
  LET active_players == SelectActive(act, 1)
      num_active == Len(active_players)
  IN  IF over THEN [winner |-> w, game_over |-> TRUE, ret |-> TRUE]
      ELSE IF num_active = 1
           THEN [winner |-> active_players[1], game_over |-> TRUE, ret |-> TRUE]
      ELSE IF num_active = 0
           THEN [winner |-> 1, game_over |-> TRUE, ret |-> TRUE]
      ELSE IF rc >= MaxRounds
           THEN [winner |-> MaxByBalance(bal, Tail(active_players), active_players[1]),
                 game_over |-> TRUE, ret |-> TRUE]
      ELSE [winner |-> w, game_over |-> over, ret |-> FALSE]

\* GameState.check_victory_condition: the new (winner, game_over) and the return value
CheckVictoryCondition(act, bal, rc, w, over) ==
  LET active_players == GetActivePlayers(act)
      num_active == Len(active_players)
  IN  IF over THEN [winner |-> w, game_over |-> TRUE, ret |-> TRUE]
      ELSE IF num_active = 1
           THEN [winner |-> active_players[1], game_over |-> TRUE, ret |-> TRUE]
      ELSE IF num_active = 0
           THEN [winner |-> None, game_over |-> TRUE, ret |-> TRUE]
      ELSE IF rc >= MaxRounds
           THEN [winner |-> MaxByBalance(bal, Tail(active_players), active_players[1]),
                 game_over |-> TRUE, ret |-> TRUE]
      ELSE [winner |-> w, game_over |-> over, ret |-> FALSE]

\* GameEngine.get_game_result: winner, rounds and the timeout flag of the summary
GetGameResult(w, rc) ==
  [winner |-> w, rounds |-> rc, timeout |-> rc >= MaxRounds]

(* ------------------------------- Init --------------------------------- *)
NoCall == [op |-> "init", player |-> None, steps |-> 0, ret |-> FALSE]
\* no batch simulation asked for
NoBatch == [phase |-> "idle"]

Init ==
  /\ strategy \in Rosters
  /\ balance = [p \in Players |-> InitialBalance]
  /\ position = [p \in Players |-> 0]
  /\ owned = [p \in Players |-> <<>>]
  /\ is_active = [p \in Players |-> TRUE]
  /\ properties \in Boards
  /\ owners = [pos \in Positions |-> None]
  /\ round_count = 0
  /\ winner = None
  /\ game_over = FALSE
  /\ op = "none"
  /\ pc = "idle"
  /\ snapshot = <<>>
  /\ idx = 0
  /\ last = NoCall
  /\ calls = 0
  /\ sim = NoBatch

(* ------------------------------ actions ------------------------------- *)
SetGame(g) ==
  /\ balance' = g.balance
  /\ position' = g.position
  /\ owned' = g.owned
  /\ is_active' = g.is_active
  /\ owners' = g.owners

\* a client calls engine.play_turn(p) directly
PlayTurn(p, steps, rnd) ==
  /\ op = "none"
  /\ calls < MaxCalls
  /\ calls' = calls + 1
  /\ SetGame(PlayTurnOp(Game, p, steps, rnd))
  /\ last' = [op |-> "play_turn", player |-> p,
              steps |-> IF is_active[p] THEN steps ELSE 0, ret |-> FALSE]
  /\ UNCHANGED <<strategy, properties, round_count, winner, game_over,
                 op, pc, snapshot, idx, sim>>

\* a client calls state.check_victory_condition() directly
CheckVictory ==
  /\ op = "none"
  /\ calls < MaxCalls
  /\ calls' = calls + 1
  /\ LET r == CheckVictoryCondition(is_active, balance, round_count, winner, game_over)
     IN  /\ winner' = r.winner
         /\ game_over' = r.game_over
         /\ last' = [op |-> "check_victory_condition", player |-> None,
                     steps |-> 0, ret |-> r.ret]
  /\ UNCHANGED <<strategy, balance, position, owned, is_active, properties, owners,
                 round_count, op, pc, snapshot, idx, sim>>

\* a client calls engine.play_round() directly: the snapshot of the active players
PlayRoundStart ==
  /\ op = "none"
  /\ calls < MaxCalls
  /\ calls' = calls + 1
  /\ op' = "play_round"
  /\ pc' = "turns"
  /\ snapshot' = GetActivePlayers(is_active)
  /\ idx' = 1
  /\ last' = [op |-> "round_start", player |-> None, steps |-> 0, ret |-> FALSE]
  /\ UNCHANGED <<strategy, balance, position, owned, is_active, properties, owners,
                 round_count, winner, game_over, sim>>

\* a round that takes its players in no fixed order: the turn of any player
\* of the snapshot
RoundTurn_AnyOrder(steps, rnd) ==
  /\ pc = "turns"
  /\ idx <= Len(snapshot)
  /\ \E i \in 1..Len(snapshot) :
       /\ SetGame(PlayTurnOp(Game, snapshot[i], steps, rnd))
       /\ last' = [op |-> "play_turn", player |-> snapshot[i],
                   steps |-> IF is_active[snapshot[i]] THEN steps ELSE 0, ret |-> FALSE]
  /\ idx' = idx + 1
  /\ UNCHANGED <<strategy, properties, round_count, winner, game_over,
                 op, pc, snapshot, calls, sim>>

\* a round that evaluates the victory condition after each turn
RoundTurn_ChecksVictory(steps, rnd) ==
  /\ pc = "turns"
  /\ idx <= Len(snapshot)
  /\ SetGame(PlayTurnOp(Game, snapshot[idx], steps, rnd))
  /\ idx' = idx + 1
  /\ last' = [op |-> "play_turn", player |-> snapshot[idx],
              steps |-> IF is_active[snapshot[idx]] THEN steps ELSE 0, ret |-> FALSE]
  /\ LET g == PlayTurnOp(Game, snapshot[idx], steps, rnd)
         r == CheckVictoryCondition(g.is_active, g.balance, round_count, winner, game_over)
     IN  /\ winner' = r.winner
         /\ game_over' = r.game_over
  /\ UNCHANGED <<strategy, properties, round_count, op, pc, snapshot, calls, sim>>

\* play_round's loop body: play_turn of the next player of the snapshot
RoundTurn(steps, rnd) ==
  /\ pc = "turns"
  /\ idx <= Len(snapshot)
  /\ SetGame(PlayTurnOp(Game, snapshot[idx], steps, rnd))
  /\ idx' = idx + 1
  /\ last' = [op |-> "play_turn", player |-> snapshot[idx],
              steps |-> IF is_active[snapshot[idx]] THEN steps ELSE 0, ret |-> FALSE]
  /\ UNCHANGED <<strategy, properties, round_count, winner, game_over,
                 op, pc, snapshot, calls, sim>>

\* play_round after its loop: increment_round, and return to the caller
RoundEnd ==
  /\ pc = "turns"
  /\ idx > Len(snapshot)
  /\ round_count' = round_count + 1
  /\ pc' = IF op = "play_game" THEN "check" ELSE "idle"
  /\ op' = IF op = "play_game" THEN "play_game" ELSE "none"
  /\ snapshot' = <<>>
  /\ idx' = 0
  /\ last' = [op |-> "round_end", player |-> None, steps |-> 0, ret |-> FALSE]
  /\ UNCHANGED <<strategy, balance, position, owned, is_active, properties, owners,
                 winner, game_over, calls, sim>>

\* a client calls engine.play_game()
PlayGameStart ==
  /\ op = "none"
  /\ last.op # "play_game"
  /\ op' = "play_game"
  /\ pc' = "loop"
  /\ last' = [op |-> "game_start", player |-> None, steps |-> 0, ret |-> FALSE]
  /\ UNCHANGED <<strategy, balance, position, owned, is_active, properties, owners,
                 round_count, winner, game_over, snapshot, idx, calls, sim>>

\* play_game whose while test is inverted
GameLoop_Inverted ==
  /\ pc = "loop"
  /\ IF ~game_over
     THEN /\ op' = "none"
          /\ pc' = "idle"
          /\ last' = [op |-> "play_game", player |-> None, steps |-> 0, ret |-> TRUE]
          /\ UNCHANGED <<snapshot, idx>>
     ELSE /\ pc' = "turns"
          /\ snapshot' = GetActivePlayers(is_active)
          /\ idx' = 1
          /\ last' = [op |-> "round_start", player |-> None, steps |-> 0, ret |-> FALSE]
          /\ UNCHANGED op
  /\ UNCHANGED <<strategy, balance, position, owned, is_active, properties, owners,
                 round_count, winner, game_over, calls, sim>>

\* play_game's while test: leave the loop and return, or enter play_round
GameLoop ==
  /\ pc = "loop"
  /\ IF game_over
     THEN /\ op' = "none"
          /\ pc' = "idle"
          /\ last' = [op |-> "play_game", player |-> None, steps |-> 0, ret |-> TRUE]
          /\ UNCHANGED <<snapshot, idx>>
     ELSE /\ pc' = "turns"
          /\ snapshot' = GetActivePlayers(is_active)
          /\ idx' = 1
          /\ last' = [op |-> "round_start", player |-> None, steps |-> 0, ret |-> FALSE]
          /\ UNCHANGED op
  /\ UNCHANGED <<strategy, balance, position, owned, is_active, properties, owners,
                 round_count, winner, game_over, calls, sim>>

\* play_game's loop body after play_round: check_victory_condition
GameCheck ==
  /\ pc = "check"
  /\ LET r == CheckVictoryCondition(is_active, balance, round_count, winner, game_over)
     IN  /\ winner' = r.winner
         /\ game_over' = r.game_over
         /\ last' = [op |-> "check_victory_condition", player |-> None,
                     steps |-> 0, ret |-> r.ret]
  /\ pc' = "loop"
  /\ UNCHANGED <<strategy, balance, position, owned, is_active, properties, owners,
                 round_count, op, snapshot, idx, calls, sim>>

GameStep ==
  \/ PlayGameStart
  \/ GameLoop
  \/ \E steps \in Dice, rnd \in BOOLEAN : RoundTurn(steps, rnd)
  \/ RoundEnd
  \/ GameCheck

ClientStep ==
  \/ \E p \in Players, steps \in Dice, rnd \in BOOLEAN : PlayTurn(p, steps, rnd)
  \/ CheckVictory
  \/ PlayRoundStart

Next == GameStep \/ ClientStep

\* an engine used through any of its operations
Spec == Init /\ [][Next]_vars

\* one engine on which play_game is the only operation called
NextGame == GameStep
SpecGame == Init /\ [][NextGame]_vars

(* ------------- games on boards of pairwise distinct properties -------- *)
\* property number i of a sequence of pairwise distinct (cost, rent) pairs
DistinctKind(i) == [cost |-> 1 + (i % 2), rent |-> 1 + (i \div 2)]
\* boards of pairwise distinct properties: BoardSize consecutive ones of the
\* sequence, from any of its first three
DistinctBoards == { [pos \in Positions |-> DistinctKind(pos + k)] : k \in 0..2 }

\* the state after construction, on a board of pairwise distinct properties
InitDistinct ==
  /\ strategy \in Rosters
  /\ balance = [p \in Players |-> InitialBalance]
  /\ position = [p \in Players |-> 0]
  /\ owned = [p \in Players |-> <<>>]
  /\ is_active = [p \in Players |-> TRUE]
  /\ properties \in DistinctBoards
  /\ owners = [pos \in Positions |-> None]
  /\ round_count = 0
  /\ winner = None
  /\ game_over = FALSE
  /\ op = "none"
  /\ pc = "idle"
  /\ snapshot = <<>>
  /\ idx = 0
  /\ last = NoCall
  /\ calls = 0
  /\ sim = NoBatch

\* play_game on a board of pairwise distinct properties
SpecDistinct == InitDistinct /\ [][NextGame]_vars

(* --------------- calls made directly on the domain objects ------------ *)
\* number of calls a client makes on the players
MaxObjectCalls == 3
\* the faces of the dice (random.randint(1, 6)) and GameConfig.NUM_PROPERTIES
DiceFaces == 6
NumProperties == 20
\* number of consecutive turns of the player walking the board
MaxWalkTurns == 8

\* the amounts passed to pay_rent and receive_rent (Money, not negative)
Amounts == 0..(InitialBalance + 1)
\* the arguments passed to Position.move, valid and invalid
ArgValues == 0..(BoardSize + 1)
ArgSteps == (-1)..(BoardSize + 2)
ArgSizes == (-1)..BoardSize
\* the boards walked with a fixed dice: more positions than the dice has faces
WalkSizes == (DiceFaces + 1)..NumProperties

\* fresh players; the board takes no part in the calls below
InitObjects ==
  /\ Init
  /\ properties = [pos \in Positions |-> [cost |-> 1, rent |-> 1]]

\* player.move(steps, board.size())
MoveCall(p, steps) ==
  /\ calls < MaxObjectCalls
  /\ calls' = calls + 1
  /\ SetGame(PlayerMove(Game, p, steps))
  /\ last' = [op |-> "move", player |-> p, steps |-> steps, ret |-> FALSE]
  /\ UNCHANGED <<strategy, properties, round_count, winner, game_over,
                 op, pc, snapshot, idx, sim>>

\* player.buy_property(prop); rnd is the draw of the random strategy, recorded
\* when the call consumes it
BuyPropertyCall(p, prop, rnd) ==
  /\ calls < MaxObjectCalls
  /\ calls' = calls + 1
  /\ SetGame(BuyProperty(Game, p, prop, rnd))
  /\ last' = [op |-> "buy_property", player |-> p, steps |-> 0,
              ret |-> BuyPropertyRet(Game, p, prop, rnd),
              prop |-> prop,
              consulted |-> StrategyConsulted(Game, p, prop),
              rnd |-> StrategyConsulted(Game, p, prop) /\ strategy[p] = "random" /\ rnd]
  /\ UNCHANGED <<strategy, properties, round_count, winner, game_over,
                 op, pc, snapshot, idx, sim>>

\* player.pay_rent(amount)
PayRentCall(p, amount) ==
  /\ calls < MaxObjectCalls
  /\ calls' = calls + 1
  /\ SetGame(PayRent(Game, p, amount))
  /\ last' = [op |-> "pay_rent", player |-> p, steps |-> 0, ret |-> FALSE,
              amount |-> amount]
  /\ UNCHANGED <<strategy, properties, round_count, winner, game_over,
                 op, pc, snapshot, idx, sim>>

\* player.receive_rent(amount)
ReceiveRentCall(p, amount) ==
  /\ calls < MaxObjectCalls
  /\ calls' = calls + 1
  /\ SetGame(ReceiveRent(Game, p, amount))
  /\ last' = [op |-> "receive_rent", player |-> p, steps |-> 0, ret |-> FALSE,
              amount |-> amount]
  /\ UNCHANGED <<strategy, properties, round_count, winner, game_over,
                 op, pc, snapshot, idx, sim>>

\* Position(value).move(steps, board_size): a value object, no state changes
PositionMoveCall(value, steps, board_size) ==
  /\ last' = [op |-> "Position.move", player |-> None, steps |-> steps, ret |-> FALSE,
              value |-> value, board_size |-> board_size,
              result |-> PositionMoveOrError(value, steps, board_size)]
  /\ UNCHANGED <<strategy, balance, position, owned, is_active, properties, owners,
                 round_count, winner, game_over, op, pc, snapshot, idx, calls, sim>>

\* a player at position 0 of a board of board_size positions, about to take
\* consecutive turns with the dice roller fixed to steps; nobody else plays,
\* so the player never pays rent
WalkStart(steps, board_size) ==
  /\ last.op # "walk"
  /\ last' = [op |-> "walk", player |-> None, steps |-> steps, ret |-> FALSE,
              board_size |-> board_size, turn |-> 0, value |-> 0, first |-> 0]
  /\ UNCHANGED <<strategy, balance, position, owned, is_active, properties, owners,
                 round_count, winner, game_over, op, pc, snapshot, idx, calls, sim>>

\* the next turn of the walk: play_turn rolls the fixed dice and moves the
\* player; ret is the completed flag of the move, first the turn of the first
\* completed round (0 before it)
WalkTurn ==
  /\ last.op = "walk"
  /\ last.turn < MaxWalkTurns
  /\ LET m == PositionMove(last.value, last.steps, last.board_size)
     IN  last' = [last EXCEPT !.turn = @ + 1,
                              !.value = m.value,
                              !.ret = m.completed_round,
                              !.first = IF @ = 0 /\ m.completed_round
                                        THEN last.turn + 1 ELSE @]
  /\ UNCHANGED <<strategy, balance, position, owned, is_active, properties, owners,
                 round_count, winner, game_over, op, pc, snapshot, idx, calls, sim>>

NextObjects ==
  \/ \E p \in Players, steps \in Dice : MoveCall(p, steps)
  \/ \E p \in Players, prop \in PropertyKinds, rnd \in BOOLEAN : BuyPropertyCall(p, prop, rnd)
  \/ \E p \in Players, amount \in Amounts : PayRentCall(p, amount)
  \/ \E p \in Players, amount \in Amounts : ReceiveRentCall(p, amount)

\* players used through their own methods
SpecObjects == InitObjects /\ [][NextObjects]_vars

NextPosition ==
  \/ \E value \in ArgValues, steps \in ArgSteps, board_size \in ArgSizes :
        PositionMoveCall(value, steps, board_size)
  \/ \E steps \in 1..DiceFaces, board_size \in WalkSizes : WalkStart(steps, board_size)
  \/ WalkTurn

\* positions moved through Position.move, one call at a time and turn after turn
SpecPosition == InitObjects /\ [][NextPosition]_vars

(* --------------------------- the repository --------------------------- *)
\* number of calls a client makes on one InMemoryPropertyRepository
MaxRepositoryCalls == 2
\* the positions handed to the repository: in range, below and past it
ArgPositions == (-1)..BoardSize
\* the owners handed to set_owner: a player or None
ArgOwners == Players \cup {None}

\* size(): len(self._properties)
Size(props) == Cardinality(DOMAIN props)

\* the test that opens get_property, set_owner and get_owner
OutOfRange(pos, props) == pos < 0 \/ pos >= Size(props)

\* get_property(pos) past its range test: the property of the list with the
\* owner of the ownership map
GetProperty(props, own, pos) ==
  [cost |-> props[pos].cost, rent |-> props[pos].rent, owner |-> own[pos]]

\* a set_owner that starts a new ownership map
SetOwner_NewMap(own, pos, player) == [q \in DOMAIN own |-> IF q = pos THEN player ELSE None]

\* set_owner(pos, player) past its range test
SetOwner(own, pos, player) == [own EXCEPT ![pos] = player]

\* get_owner(pos) past its range test
GetOwner(own, pos) == own[pos]

\* a fresh repository over any board, no game in progress
InitRepository ==
  /\ Init
  /\ strategy = [p \in Players |-> DefaultRoster[p]]

\* a set_owner that takes a position out of range for the nearest one in range
SetOwnerCall_ClampsPosition(pos, player) ==
  /\ calls < MaxRepositoryCalls
  /\ calls' = calls + 1
  /\ LET near == IF pos < 0 THEN 0
                 ELSE IF pos >= Size(properties) THEN Size(properties) - 1 ELSE pos
     IN  owners' = SetOwner(owners, near, player)
  /\ last' = [op |-> "set_owner", player |-> None, steps |-> 0, ret |-> FALSE,
              pos |-> pos, owner |-> player, error |-> "none"]
  /\ UNCHANGED <<strategy, balance, position, owned, is_active, properties, round_count,
                 winner, game_over, op, pc, snapshot, idx, sim>>

\* repository.set_owner(pos, player)
SetOwnerCall(pos, player) ==
  /\ calls < MaxRepositoryCalls
  /\ calls' = calls + 1
  /\ IF OutOfRange(pos, properties)
     THEN /\ owners' = owners
          /\ last' = [op |-> "set_owner", player |-> None, steps |-> 0, ret |-> FALSE,
                      pos |-> pos, owner |-> player, error |-> "IndexError"]
     ELSE /\ owners' = SetOwner(owners, pos, player)
          /\ last' = [op |-> "set_owner", player |-> None, steps |-> 0, ret |-> FALSE,
                      pos |-> pos, owner |-> player, error |-> "none"]
  /\ UNCHANGED <<strategy, balance, position, owned, is_active, properties, round_count,
                 winner, game_over, op, pc, snapshot, idx, sim>>

\* repository.get_property(pos)
GetPropertyCall(pos) ==
  /\ calls < MaxRepositoryCalls
  /\ calls' = calls + 1
  /\ last' = IF OutOfRange(pos, properties)
             THEN [op |-> "get_property", player |-> None, steps |-> 0, ret |-> FALSE,
                   pos |-> pos, error |-> "IndexError"]
             ELSE [op |-> "get_property", player |-> None, steps |-> 0, ret |-> FALSE,
                   pos |-> pos, error |-> "none",
                   result |-> GetProperty(properties, owners, pos)]
  /\ UNCHANGED <<strategy, balance, position, owned, is_active, properties, owners,
                 round_count, winner, game_over, op, pc, snapshot, idx, sim>>

\* repository.get_owner(pos)
GetOwnerCall(pos) ==
  /\ calls < MaxRepositoryCalls
  /\ calls' = calls + 1
  /\ last' = IF OutOfRange(pos, properties)
             THEN [op |-> "get_owner", player |-> None, steps |-> 0, ret |-> FALSE,
                   pos |-> pos, error |-> "IndexError"]
             ELSE [op |-> "get_owner", player |-> None, steps |-> 0, ret |-> FALSE,
                   pos |-> pos, error |-> "none",
                   result |-> GetOwner(owners, pos)]
  /\ UNCHANGED <<strategy, balance, position, owned, is_active, properties, owners,
                 round_count, winner, game_over, op, pc, snapshot, idx, sim>>

\* repository.size()
SizeCall ==
  /\ calls < MaxRepositoryCalls
  /\ calls' = calls + 1
  /\ last' = [op |-> "size", player |-> None, steps |-> 0, ret |-> FALSE,
              error |-> "none", result |-> Size(properties)]
  /\ UNCHANGED <<strategy, balance, position, owned, is_active, properties, owners,
                 round_count, winner, game_over, op, pc, snapshot, idx, sim>>

NextRepository ==
  \/ \E pos \in ArgPositions, player \in ArgOwners : SetOwnerCall(pos, player)
  \/ \E pos \in ArgPositions : GetPropertyCall(pos)
  \/ \E pos \in ArgPositions : GetOwnerCall(pos)
  \/ SizeCall

\* the repository's methods called directly, with any position
SpecRepository == InitRepository /\ [][NextRepository]_vars

(* --------------------------- construction ----------------------------- *)
\* board is None
NoBoard == <<>>
\* the players lists handed to the constructors: empty, or the first players
\* of the default roster
ArgPlayers == { SubSeq(DefaultRoster, 1, k) : k \in 0..Len(DefaultRoster) }
\* the boards handed to the constructors
ArgBoards == Boards \cup {NoBoard}
\* the max_rounds handed to GameState
ArgMaxRounds == (-1)..MaxRounds

\* a GameState that rejects only a negative max_rounds
NewGameState_AllowsZeroRounds(players, board, max_rounds) ==
  IF players = <<>> \/ board = NoBoard \/ max_rounds < 0
  THEN [error |-> "GameConfigurationError"]
  ELSE [error |-> "none",
        state |-> [players |-> players, board |-> board, round_count |-> 0,
                   max_rounds |-> max_rounds, winner |-> None, game_over |-> FALSE]]

\* GameState(players, board, max_rounds): the error raised, or the new state
NewGameState(players, board, max_rounds) ==
  IF players = <<>> THEN [error |-> "GameConfigurationError"]
  ELSE IF board = NoBoard THEN [error |-> "GameConfigurationError"]
  ELSE IF max_rounds <= 0 THEN [error |-> "GameConfigurationError"]
  ELSE [error |-> "none",
        state |-> [players |-> players, board |-> board, round_count |-> 0,
                   max_rounds |-> max_rounds, winner |-> None, game_over |-> FALSE]]

\* GameEngine(players, board, logger): the error raised, or the engine's state,
\* built with GameConfig.MAX_ROUNDS
NewGameEngine(players, board) ==
  IF players = <<>> THEN [error |-> "GameConfigurationError"]
  ELSE IF board = NoBoard THEN [error |-> "GameConfigurationError"]
  ELSE NewGameState(players, board, MaxRounds)

\* the record of a constructor call: its arguments and what it gave
Constructed(name, players, board, max_rounds, made) ==
  IF made.error = "none"
  THEN [op |-> name, player |-> None, steps |-> 0, ret |-> FALSE,
        players |-> players, board |-> board, max_rounds |-> max_rounds,
        error |-> made.error, state |-> made.state]
  ELSE [op |-> name, player |-> None, steps |-> 0, ret |-> FALSE,
        players |-> players, board |-> board, max_rounds |-> max_rounds,
        error |-> made.error]

\* a client constructs a GameState (MaxCalls constructions are followed)
NewGameStateCall(players, board, max_rounds) ==
  /\ calls < MaxCalls
  /\ calls' = calls + 1
  /\ last' = Constructed("GameState", players, board, max_rounds,
                         NewGameState(players, board, max_rounds))
  /\ UNCHANGED <<strategy, balance, position, owned, is_active, properties, owners,
                 round_count, winner, game_over, op, pc, snapshot, idx, sim>>

\* a client constructs a GameEngine
NewGameEngineCall(players, board) ==
  /\ calls < MaxCalls
  /\ calls' = calls + 1
  /\ last' = Constructed("GameEngine", players, board, MaxRounds,
                         NewGameEngine(players, board))
  /\ UNCHANGED <<strategy, balance, position, owned, is_active, properties, owners,
                 round_count, winner, game_over, op, pc, snapshot, idx, sim>>

NextConstruct ==
  \/ \E players \in ArgPlayers, board \in ArgBoards, max_rounds \in ArgMaxRounds :
       NewGameStateCall(players, board, max_rounds)
  \/ \E players \in ArgPlayers, board \in ArgBoards : NewGameEngineCall(players, board)

\* game states and engines constructed from any arguments
SpecConstruct == InitRepository /\ [][NextConstruct]_vars

(* ------------------------ the batch simulator ------------------------ *)
\* the largest num_simulations asked for
MaxSimulations == 4
\* the worker processes of the pool
Workers == 1..3
SimulationCounts == 2..MaxSimulations
\* the num_simulations that run_batch_simulation rejects
InvalidCounts == (-1)..0
\* the result summaries of the games a worker plays: the winner's strategy or
\* "none", the rounds and the timeout flag
GameResults ==
  { [winner |-> w, rounds |-> GetGameResult(None, rc).rounds,
     timeout |-> GetGameResult(None, rc).timeout] :
      w \in {"none", "impulsive", "demanding"}, rc \in {1, MaxRounds} }

\* a float quotient a / b, kept as the pair it is computed from
Quotient(a, b) == <<a, b>>

RECURSIVE SumSeq(_)
SumSeq(s) == IF s = <<>> THEN 0 ELSE Head(s) + SumSeq(Tail(s))

\* the accumulators run_simulation_batch and _collect_batch_results start from
EmptyBatch ==
  [num_simulations |-> 0,
   strategy_wins |-> [s \in Strategies |-> 0],
   strategy_rounds_when_won |-> [s \in Strategies |-> <<>>],
   total_rounds |-> 0,
   total_timeouts |-> 0]

\* a game result that counts its win twice
ProcessGameResult_DoubleWin(b, result) ==
  [b EXCEPT
     !.num_simulations = @ + 1,
     !.total_rounds = @ + result.rounds,
     !.total_timeouts = @ + (IF result.timeout THEN 1 ELSE 0),
     !.strategy_wins =
        IF result.winner # "none" THEN [@ EXCEPT ![result.winner] = @ + 2] ELSE @,
     !.strategy_rounds_when_won =
        IF result.winner # "none"
        THEN [@ EXCEPT ![result.winner] = Append(@, result.rounds)] ELSE @]

\* _process_game_result and the sums of run_simulation_batch's loop body
ProcessGameResult(b, result) ==
  [b EXCEPT
     !.num_simulations = @ + 1,
     !.total_rounds = @ + result.rounds,
     !.total_timeouts = @ + (IF result.timeout THEN 1 ELSE 0),
     !.strategy_wins =
        IF result.winner # "none" THEN [@ EXCEPT ![result.winner] = @ + 1] ELSE @,
     !.strategy_rounds_when_won =
        IF result.winner # "none"
        THEN [@ EXCEPT ![result.winner] = Append(@, result.rounds)] ELSE @]

\* run_simulation_batch over the results of the games it plays
RECURSIVE RunSimulationBatch(_, _)
RunSimulationBatch(b, games) ==
  IF games = <<>> THEN b
  ELSE RunSimulationBatch(ProcessGameResult(b, Head(games)), Tail(games))

\* chunks whose remainder all goes to the last worker
CalculateWorkerChunks_RemainderToLast(num_simulations, num_workers) ==
  [i \in 1..num_workers |->
     (num_simulations \div num_workers)
       + (IF i = num_workers THEN num_simulations % num_workers ELSE 0)]

\* _calculate_worker_chunks (workers are numbered from 1 here)
CalculateWorkerChunks(num_simulations, num_workers) ==
  [i \in 1..num_workers |->
     (num_simulations \div num_workers)
       + (IF i - 1 < num_simulations % num_workers THEN 1 ELSE 0)]

\* the loop body of _collect_batch_results: one batch result merged
CollectBatchResult(acc, batch_result) ==
  [acc EXCEPT
     !.total_rounds = @ + batch_result.total_rounds,
     !.total_timeouts = @ + batch_result.total_timeouts,
     !.strategy_wins =
        [s \in Strategies |-> @[s] + batch_result.strategy_wins[s]],
     !.strategy_rounds_when_won =
        [s \in Strategies |-> @[s] \o batch_result.strategy_rounds_when_won[s]]]

\* statistics that take a strategy's rounds from its last recorded win
AggregateStrategyStatistics_LastWin(strategy_wins, strategy_rounds_when_won, num_simulations, total_timeouts) ==
  [i \in 1..Len(DefaultRoster) |->
     LET s == DefaultRoster[i]
         rounds_list == strategy_rounds_when_won[s]
     IN  [strategy |-> s,
          wins |-> strategy_wins[s],
          win_rate |-> Quotient(strategy_wins[s], num_simulations),
          timeouts |-> total_timeouts,
          avg_rounds_when_won |->
            IF rounds_list # <<>>
            THEN Quotient(rounds_list[Len(rounds_list)], 1)
            ELSE Quotient(0, 1)]]

\* _aggregate_strategy_statistics
AggregateStrategyStatistics(strategy_wins, strategy_rounds_when_won, num_simulations, total_timeouts) ==
  [i \in 1..Len(DefaultRoster) |->
     LET s == DefaultRoster[i]
         rounds_list == strategy_rounds_when_won[s]
     IN  [strategy |-> s,
          wins |-> strategy_wins[s],
          win_rate |-> Quotient(strategy_wins[s], num_simulations),
          timeouts |-> total_timeouts,
          avg_rounds_when_won |->
            IF rounds_list # <<>>
            THEN Quotient(SumSeq(rounds_list), Len(rounds_list))
            ELSE Quotient(0, 1)]]

\* a maximum that keeps the last maximal entry
RECURSIVE MaxByWins_LastMax(_, _, _)
MaxByWins_LastMax(stats, i, best) ==
  IF i > Len(stats) THEN best
  ELSE MaxByWins_LastMax(stats, i + 1, IF stats[i].wins >= stats[best].wins THEN i ELSE best)

\* max(strategy_stats, key=wins): the index of the first maximal entry
RECURSIVE MaxByWins(_, _, _)
MaxByWins(stats, i, best) ==
  IF i > Len(stats) THEN best
  ELSE MaxByWins(stats, i + 1, IF stats[i].wins > stats[best].wins THEN i ELSE best)

\* _build_batch_result, the timing fields left out
BuildBatchResult(num_simulations, strategy_stats, total_timeouts, total_rounds) ==
  LET most_winning == strategy_stats[MaxByWins(strategy_stats, 2, 1)]
  IN  [total_simulations |-> num_simulations,
       timeouts |-> total_timeouts,
       timeout_rate |-> Quotient(total_timeouts, num_simulations),
       avg_rounds |-> Quotient(total_rounds, num_simulations),
       strategy_statistics |-> strategy_stats,
       most_winning_strategy |->
         IF most_winning.wins > 0 THEN most_winning.strategy ELSE "none"]

\* the state of a call of run_batch_simulation that has passed its validation
Submitted(num_simulations, num_workers, chunks) ==
  [phase |-> "collecting",
   error |-> "none",
   num_simulations |-> num_simulations,
   num_workers |-> num_workers,
   chunks |-> chunks,
   submitted |-> { w \in 1..num_workers : chunks[w] > 0 },
   done |-> {},
   failed |-> {},
   batch |-> [w \in Workers |-> EmptyBatch],
   order |-> <<>>,
   acc |-> EmptyBatch]

\* a run_batch_simulation that does not validate num_simulations
RunBatchSimulation_NoValidation(num_simulations, num_workers) ==
  /\ sim.phase = "idle"
  /\ sim' = Submitted(num_simulations, num_workers,
                      CalculateWorkerChunks(num_simulations, num_workers))
  /\ UNCHANGED <<strategy, balance, position, owned, is_active, properties, owners,
                 round_count, winner, game_over, op, pc, snapshot, idx, last, calls>>

\* run_batch_simulation(num_simulations, num_workers): a configuration error
\* for num_simulations <= 0; else the chunks, and one future submitted per
\* chunk that is not empty
RunBatchSimulation(num_simulations, num_workers) ==
  /\ sim.phase = "idle"
  /\ sim' = IF num_simulations <= 0
            THEN [Submitted(num_simulations, num_workers, [w \in 1..num_workers |-> 0])
                    EXCEPT !.phase = "raised",
                           !.error = "GameConfigurationError"]
            ELSE Submitted(num_simulations, num_workers,
                           CalculateWorkerChunks(num_simulations, num_workers))
  /\ UNCHANGED <<strategy, balance, position, owned, is_active, properties, owners,
                 round_count, winner, game_over, op, pc, snapshot, idx, last, calls>>

\* worker w finishes run_simulation_batch over the games of its chunk: its
\* future holds the batch result (the pool's workers run on while the
\* executor is shut down)
WorkerDone(w) ==
  /\ sim.phase \in {"collecting", "raising"}
  /\ w \in sim.submitted \ sim.done
  /\ \E games \in [1..sim.chunks[w] -> GameResults] :
       sim' = [sim EXCEPT !.done = @ \cup {w},
                          !.batch[w] = RunSimulationBatch(EmptyBatch, games)]
  /\ UNCHANGED <<strategy, balance, position, owned, is_active, properties, owners,
                 round_count, winner, game_over, op, pc, snapshot, idx, last, calls>>

\* worker w fails while running its chunk: its future holds the exception
WorkerFail(w) ==
  /\ sim.phase \in {"collecting", "raising"}
  /\ w \in sim.submitted \ sim.done
  /\ sim' = [sim EXCEPT !.done = @ \cup {w}, !.failed = @ \cup {w}]
  /\ UNCHANGED <<strategy, balance, position, owned, is_active, properties, owners,
                 round_count, winner, game_over, op, pc, snapshot, idx, last, calls>>

\* a collection that skips the future of a failed worker
CollectNext_SkipFailed(w) ==
  /\ sim.phase = "collecting"
  /\ w \in sim.done
  /\ \A i \in 1..Len(sim.order) : sim.order[i] # w
  /\ sim' = IF w \in sim.failed
            THEN [sim EXCEPT !.order = Append(@, w)]
            ELSE [sim EXCEPT !.order = Append(@, w),
                             !.acc = CollectBatchResult(@, sim.batch[w])]
  /\ UNCHANGED <<strategy, balance, position, owned, is_active, properties, owners,
                 round_count, winner, game_over, op, pc, snapshot, idx, last, calls>>

\* as_completed yields a finished future not yet collected: future.result()
\* raises the worker's exception, which leaves the with block, or returns the
\* batch result, which is merged
CollectNext(w) ==
  /\ sim.phase = "collecting"
  /\ w \in sim.done
  /\ \A i \in 1..Len(sim.order) : sim.order[i] # w
  /\ sim' = IF w \in sim.failed
            THEN [sim EXCEPT !.phase = "raising", !.error = "worker"]
            ELSE [sim EXCEPT !.order = Append(@, w),
                             !.acc = CollectBatchResult(@, sim.batch[w])]
  /\ UNCHANGED <<strategy, balance, position, owned, is_active, properties, owners,
                 round_count, winner, game_over, op, pc, snapshot, idx, last, calls>>

\* the with block is left by the worker's exception: the executor's shutdown
\* waits for the futures still running, then run_batch_simulation raises
ExecutorShutdown ==
  /\ sim.phase = "raising"
  /\ sim.done = sim.submitted
  /\ sim' = [sim EXCEPT !.phase = "raised"]
  /\ UNCHANGED <<strategy, balance, position, owned, is_active, properties, owners,
                 round_count, winner, game_over, op, pc, snapshot, idx, last, calls>>

\* a result built as soon as one future is collected
BatchFinish_AfterFirst ==
  /\ sim.phase = "collecting"
  /\ Len(sim.order) >= 1
  /\ sim' = [phase |-> "done",
             error |-> "none",
             num_simulations |-> sim.num_simulations,
             num_workers |-> sim.num_workers,
             chunks |-> sim.chunks,
             submitted |-> sim.submitted,
             done |-> sim.done,
             failed |-> sim.failed,
             batch |-> sim.batch,
             order |-> sim.order,
             acc |-> sim.acc,
             result |->
                 BuildBatchResult(
                   sim.num_simulations,
                   AggregateStrategyStatistics(sim.acc.strategy_wins,
                                               sim.acc.strategy_rounds_when_won,
                                               sim.num_simulations,
                                               sim.acc.total_timeouts),
                   sim.acc.total_timeouts,
                   sim.acc.total_rounds)]
  /\ UNCHANGED <<strategy, balance, position, owned, is_active, properties, owners,
                 round_count, winner, game_over, op, pc, snapshot, idx, last, calls>>

\* every future collected: the statistics are aggregated and the result built
BatchFinish ==
  /\ sim.phase = "collecting"
  /\ Len(sim.order) = Cardinality(sim.submitted)
  /\ sim' = [phase |-> "done",
             error |-> "none",
             num_simulations |-> sim.num_simulations,
             num_workers |-> sim.num_workers,
             chunks |-> sim.chunks,
             submitted |-> sim.submitted,
             done |-> sim.done,
             failed |-> sim.failed,
             batch |-> sim.batch,
             order |-> sim.order,
             acc |-> sim.acc,
             result |->
                 BuildBatchResult(
                   sim.num_simulations,
                   AggregateStrategyStatistics(sim.acc.strategy_wins,
                                               sim.acc.strategy_rounds_when_won,
                                               sim.num_simulations,
                                               sim.acc.total_timeouts),
                   sim.acc.total_timeouts,
                   sim.acc.total_rounds)]
  /\ UNCHANGED <<strategy, balance, position, owned, is_active, properties, owners,
                 round_count, winner, game_over, op, pc, snapshot, idx, last, calls>>

NextBatch ==
  \/ \E num_simulations \in SimulationCounts \cup InvalidCounts, num_workers \in Workers :
       RunBatchSimulation(num_simulations, num_workers)
  \/ \E w \in Workers : WorkerDone(w)
  \/ \E w \in Workers : WorkerFail(w)
  \/ \E w \in Workers : CollectNext(w)
  \/ ExecutorShutdown
  \/ BatchFinish

\* one batch simulation, its workers finishing in any order
SpecBatch == InitObjects /\ [][NextBatch]_vars

(* ---------------------- vocabulary of the properties ------------------ *)
\* this step is a play_turn(p) that rolled the dice and got steps
TurnStep(p, steps) ==
  /\ last'.op = "play_turn"
  /\ last'.player = p
  /\ last'.steps = steps
  /\ steps \in Dice
  /\ (idx' = idx + 1 \/ calls' = calls + 1)

\* this step is a run of check_victory_condition
CheckStep ==
  /\ last'.op = "check_victory_condition"
  /\ (pc = "check" \/ calls' = calls + 1)

\* where a move of steps from p's position lands, and the salary it credits
LandingOf(p, steps) == (position[p] + steps) % BoardSize
SalaryOf(p, steps) == IF position[p] + steps >= BoardSize THEN RoundSalary ELSE 0

ActiveSet == { p \in Players : is_active[p] }
\* play_game has returned
Returned == last.op = "play_game"

(* ------------------------------- C1 ----------------------------------- *)
\* C1: once game_over is true no engine operation changes the round counter,
\* the winner, a player's balance, position, owned list or active flag, or a
\* board ownership entry.
C1_TerminalStateFrozen ==
  [][ game_over =>
        /\ round_count' = round_count
        /\ winner' = winner
        /\ balance' = balance
        /\ position' = position
        /\ owned' = owned
        /\ is_active' = is_active
        /\ owners' = owners ]_vars

(* ------------------------------- C2 ----------------------------------- *)
\* s lists exactly the players of set S, each once, in roster order
ListsInRosterOrder(s, S) ==
  /\ { s[i] : i \in 1..Len(s) } = S
  /\ \A i, j \in 1..Len(s) : i < j => s[i] < s[j]

\* C2: play_round takes the players active at its start, gives each of them
\* exactly one turn in roster order (a turn that rolls the dice and moves the
\* player), gives no turn to the others, and then increments the round counter
\* by exactly one.
C2_RoundGivesEachActivePlayerOneTurn ==
  [][ /\ (pc # "turns" /\ pc' = "turns") =>
           /\ ListsInRosterOrder(snapshot', ActiveSet)
           /\ idx' = 1
      /\ (pc = "turns" /\ pc' = "turns") =>
           /\ idx <= Len(snapshot)
           /\ idx' = idx + 1
           /\ snapshot' = snapshot
           /\ round_count' = round_count
           /\ \E steps \in Dice :
                /\ TurnStep(snapshot[idx], steps)
                /\ position'[snapshot[idx]] = LandingOf(snapshot[idx], steps)
           /\ \A q \in Players \ { snapshot[i] : i \in 1..Len(snapshot) } :
                /\ position'[q] = position[q]
                /\ balance'[q] = balance[q]
                /\ owned'[q] = owned[q]
                /\ is_active'[q] = is_active[q]
      /\ (pc = "turns" /\ pc' # "turns") =>
           /\ idx = Len(snapshot) + 1
           /\ round_count' = round_count + 1
           /\ position' = position
           /\ balance' = balance ]_vars

\* a round is at its end, every player of a snapshot that left out an
\* eliminated player having had a turn
C2_Witness ==
  /\ pc = "turns"
  /\ idx = Len(snapshot) + 1
  /\ Len(snapshot) = NumPlayers - 1
  /\ last.op = "play_turn"
  /\ last.player = snapshot[Len(snapshot)]

(* ------------------------------- C3 ----------------------------------- *)
\* C3: when a turn eliminates a player, after the turn no board position has
\* the eliminated player as its recorded owner.
C3_EliminationReleasesAllPositions ==
  [][ \A p \in Players :
        (is_active[p] /\ ~is_active'[p]) =>
          \A pos \in Positions : owners'[pos] # p ]_vars

(* ------------------------------- C4 ----------------------------------- *)
\* C4: a turn that lands the player on a position owned by another player
\* debits the player by the rent in every case and credits the owner by the
\* rent exactly when the owner is active; no other balance changes, so rent
\* paid to an inactive owner is credited to nobody.
C4_RentDebitedAndCreditedToActiveOwner ==
  [][ \A p \in Players : \A steps \in Dice :
        LET pos   == LandingOf(p, steps)
            owner == owners[pos]
            rent  == properties[pos].rent
        IN  (TurnStep(p, steps) /\ owner # None /\ owner # p) =>
              /\ balance'[p] = balance[p] + SalaryOf(p, steps) - rent
              /\ balance'[owner] =
                   IF is_active[owner] THEN balance[owner] + rent ELSE balance[owner]
              /\ \A q \in Players \ {p, owner} : balance'[q] = balance[q] ]_vars

\* a turn has just paid rent on a position whose owner is inactive
C4_Witness ==
  /\ last.op = "play_turn"
  /\ last.steps > 0
  /\ LET owner == owners[position[last.player]]
     IN  /\ owner # None
         /\ owner # last.player
         /\ ~is_active[owner]
         /\ properties[position[last.player]].rent > 0

(* ------------------------------- C5 ----------------------------------- *)
\* C5: a turn that lands the player on an unowned position either buys it
\* (the balance decreases by exactly the cost, the property is appended to the
\* owned list and the board records the player as owner of the position the
\* player stands on) or does not (balance, owned list and board ownership are
\* unchanged, the move's salary apart).
C5_PurchaseAllOrNothing ==
  [][ \A p \in Players : \A steps \in Dice :
        LET pos  == LandingOf(p, steps)
            prop == properties[pos]
        IN  (TurnStep(p, steps) /\ owners[pos] = None) =>
              /\ position'[p] = pos
              /\ \/ /\ balance'[p] = balance[p] + SalaryOf(p, steps) - prop.cost
                    /\ owned'[p] = Append(owned[p], prop)
                    /\ owners' = [owners EXCEPT ![pos] = p]
                 \/ /\ balance'[p] = balance[p] + SalaryOf(p, steps)
                    /\ owned'[p] = owned[p]
                    /\ owners' = owners
              /\ \A q \in Players \ {p} : balance'[q] = balance[q] /\ owned'[q] = owned[q] ]_vars

\* the first turn of a player has just bought the position it landed on
C5_Witness ==
  /\ round_count = 0
  /\ last.op = "play_turn"
  /\ owners[position[last.player]] = last.player
  /\ Len(owned[last.player]) = 1
  /\ balance[last.player] < InitialBalance

(* ------------------------------- C6 ----------------------------------- *)
\* C6: check_victory_condition on a non-terminal state with exactly one active
\* player returns true, sets game_over and sets the winner to that player,
\* whatever the round count and the balances.
C6_SoleActivePlayerWins ==
  [][ \A p \in Players :
        (CheckStep /\ ~game_over /\ ActiveSet = {p}) =>
          /\ last'.ret = TRUE
          /\ game_over' = TRUE
          /\ winner' = p ]_vars

\* the check has just ended a game before the last round, for the only
\* player left, who is not the first of the roster
C6_Witness ==
  /\ last.op = "check_victory_condition"
  /\ last.ret = TRUE
  /\ round_count < MaxRounds
  /\ Cardinality(ActiveSet) = 1
  /\ winner \in ActiveSet
  /\ winner # 1

(* ------------------------------- C7 ----------------------------------- *)
\* C7: check_victory_condition on a non-terminal state with
\* round_count >= max_rounds and two or more active players makes the game
\* terminal; the winner is an active player of maximal balance among the
\* active players and, among those, the first in roster order.
C7_TimeoutWinnerIsFirstRichestActive ==
  [][ (CheckStep /\ ~game_over /\ Cardinality(ActiveSet) >= 2
         /\ round_count >= MaxRounds) =>
        /\ last'.ret = TRUE
        /\ game_over' = TRUE
        /\ winner' \in ActiveSet
        /\ \A q \in ActiveSet : balance[q] <= balance[winner']
        /\ \A q \in ActiveSet : q < winner' => balance[q] < balance[winner'] ]_vars

\* a timeout has just been decided between active players tied for the
\* maximal balance, with an eliminated player in the roster
C7_Witness ==
  /\ last.op = "check_victory_condition"
  /\ game_over
  /\ round_count = MaxRounds
  /\ Cardinality(ActiveSet) = 2
  /\ winner \in ActiveSet
  /\ \E q \in ActiveSet : q > winner /\ balance[q] = balance[winner]

(* ------------------------------- C8 ----------------------------------- *)
\* C8: check_victory_condition on a non-terminal state with no active player
\* ends the game as a draw: it returns true, game_over is true and the winner
\* is none.
C8_NoActivePlayerIsADraw ==
  [][ (CheckStep /\ ~game_over /\ ActiveSet = {}) =>
        /\ last'.ret = TRUE
        /\ game_over' = TRUE
        /\ winner' = None ]_vars

\* the check has just found every player eliminated
C8_Witness ==
  /\ last.op = "check_victory_condition"
  /\ last.ret = TRUE
  /\ ActiveSet = {}
  /\ game_over
  /\ winner = None

(* ------------------------------- C9 ----------------------------------- *)
\* how far play_game has come: the rounds completed, then the place in the
\* loop body (victory check, loop test, the turns of the round, returned)
Progress ==
  round_count * (NumPlayers + 5)
    + (CASE Returned      -> NumPlayers + 4
         [] pc = "turns"  -> 2 + idx
         [] pc = "loop"   -> 2
         [] pc = "check"  -> 1
         [] OTHER         -> 0)

\* C9: play_game on a fresh engine always returns, whatever the dice and the
\* strategies' decisions, with game_over true and a round count r such that
\* 1 <= r <= max_rounds.  Termination is stated as: every step of play_game
\* advances Progress, Progress is bounded, and play_game is never stuck before
\* it has returned.
C9_PlayGameTerminatesWithinMaxRounds ==
  /\ [][Progress' > Progress]_vars
  /\ [](Progress <= MaxRounds * (NumPlayers + 5) + NumPlayers + 4)
  /\ [](Returned \/ ENABLED NextGame)
  /\ [](Returned => (game_over /\ 1 <= round_count /\ round_count <= MaxRounds))

\* play_game has returned after the last round allowed, players still active
C9_Witness ==
  /\ Returned
  /\ round_count = MaxRounds
  /\ Cardinality(ActiveSet) >= 2

(* ------------------------------- C10 ---------------------------------- *)
\* C10: when play_game returns, the game is over and either a winner is set
\* or the round count has reached max_rounds.
C10_FinishedGameHasWinnerOrTimeout ==
  Returned => (game_over /\ (winner # None \/ round_count >= MaxRounds))

(* ------------------------------- C11 ---------------------------------- *)
\* C11: the timeout flag of the result of a finished game is true exactly when
\* the game ended by reaching max_rounds (its final victory check found two or
\* more active players) and not by elimination: a game whose final check found
\* one or no active player is never reported as a timeout.
C11_TimeoutFlagOnlyForTimeout ==
  Returned =>
    (GetGameResult(winner, round_count).timeout <=> Cardinality(ActiveSet) >= 2)

(* ------------------------------- C12 ---------------------------------- *)
\* this step is the call op of a method of player p
ObjectCall(name, p) ==
  /\ last'.op = name
  /\ last'.player = p
  /\ calls' = calls + 1

\* the other players are left as they are
OthersUnchanged(p) ==
  \A q \in Players \ {p} :
    /\ balance'[q] = balance[q]
    /\ position'[q] = position[q]
    /\ owned'[q] = owned[q]
    /\ is_active'[q] = is_active[q]

\* C12: Player.move always sets the position to the moved position, credits
\* the round salary exactly once when the move completes a round (the walk
\* passes the end of the board) and does not change the balance otherwise.
C12_MoveCreditsSalaryIffRoundCompleted ==
  [][ \A p \in Players : \A steps \in Dice :
        (ObjectCall("move", p) /\ last'.steps = steps) =>
          /\ position'[p] = (position[p] + steps) % BoardSize
          /\ balance'[p] = IF position[p] + steps >= BoardSize
                           THEN balance[p] + RoundSalary
                           ELSE balance[p]
          /\ owned'[p] = owned[p]
          /\ is_active'[p] = is_active[p]
          /\ OthersUnchanged(p) ]_vars

\* a move has just passed the end of the board and credited the salary
C12_Witness ==
  /\ last.op = "move"
  /\ position[last.player] < last.steps
  /\ balance[last.player] = InitialBalance + RoundSalary

(* ------------------------------- C16 ---------------------------------- *)
\* C16: pay_rent(amount), amount >= 0, debits the balance by exactly amount and
\* sets the player inactive if and only if the resulting balance is strictly
\* negative; at a resulting balance of zero or more the active flag is left
\* as it was.
C16_PayRentEliminatesBelowZero ==
  [][ \A p \in Players : \A amount \in Amounts :
        (ObjectCall("pay_rent", p) /\ last'.amount = amount) =>
          /\ balance'[p] = balance[p] - amount
          /\ (balance[p] - amount < 0) => ~is_active'[p]
          /\ (balance[p] - amount >= 0) => is_active'[p] = is_active[p]
          /\ position'[p] = position[p]
          /\ owned'[p] = owned[p]
          /\ OthersUnchanged(p) ]_vars

\* a rent has just taken a player's balance to exactly zero, the player active
C16_Witness ==
  /\ last.op = "pay_rent"
  /\ last.amount > 0
  /\ balance[last.player] = 0
  /\ is_active[last.player]

(* ------------------------------- C17 ---------------------------------- *)
\* C17: buy_property asks the strategy only when balance >= cost; with
\* balance < cost it returns false without asking the strategy (no random draw
\* is consumed) and leaves the balance and the owned list unchanged.
C17_StrategyAskedOnlyWhenAffordable ==
  [][ \A p \in Players :
        ObjectCall("buy_property", p) =>
          /\ last'.consulted => balance[p] >= last'.prop.cost
          /\ (balance[p] < last'.prop.cost) =>
                /\ last'.ret = FALSE
                /\ ~last'.consulted
                /\ ~last'.rnd
                /\ balance'[p] = balance[p]
                /\ owned'[p] = owned[p] ]_vars

\* a player of the random strategy could not afford the property offered
C17_Witness ==
  /\ last.op = "buy_property"
  /\ strategy[last.player] = "random"
  /\ balance[last.player] >= 0
  /\ balance[last.player] < last.prop.cost
  /\ ~last.consulted

(* ------------------------------- C18 ---------------------------------- *)
\* the purchase rule of player p's strategy for property prop, rnd being the
\* draw the call consumed
StrategyRule(p, prop, rnd) ==
  \/ strategy[p] = "impulsive"
  \/ strategy[p] = "demanding" /\ prop.rent > DemandingThreshold
  \/ strategy[p] = "cautious" /\ balance[p] - prop.cost >= CautiousReserve
  \/ strategy[p] = "random" /\ rnd

ValidMove ==
  /\ last.op = "Position.move"
  /\ last.steps > 0
  /\ last.board_size > 0

\* C13: for old >= 0, steps > 0 and board_size > 0, Position.move returns
\* new = (old + steps) mod board_size, in [0, board_size), and the completed
\* flag is true if and only if new < old or old + steps >= board_size; for
\* steps <= 0 or board_size <= 0 it fails and returns nothing.
C13_PositionMoveResult ==
  last.op = "Position.move" =>
    IF last.steps > 0 /\ last.board_size > 0
    THEN /\ ~last.result.error
         /\ last.result.value = (last.value + last.steps) % last.board_size
         /\ 0 <= last.result.value
         /\ last.result.value < last.board_size
         /\ last.result.completed_round <=>
              (last.result.value < last.value
                 \/ last.value + last.steps >= last.board_size)
    ELSE last.result = [error |-> TRUE]

\* a move from position 0 by exactly board_size steps: a completed round with
\* the new value not below the old one
C13_Witness ==
  /\ ValidMove
  /\ last.value = 0
  /\ last.steps = last.board_size
  /\ last.result.value = 0
  /\ last.result.completed_round

(* ------------------------------- C14 ---------------------------------- *)
\* a call of Position.move with valid arguments that returns the completed
\* flag true with new < old false
CompletedNotBelow ==
  \E value \in ArgValues, steps \in ArgSteps, board_size \in ArgSizes :
    /\ steps > 0 /\ board_size > 0
    /\ PositionMoveCall(value, steps, board_size)
    /\ last'.result.completed_round
    /\ ~(last'.result.value < value)

\* a call of Position.move with valid arguments that returns the completed
\* flag true with old + steps >= board_size false
CompletedNotPast ==
  \E value \in ArgValues, steps \in ArgSteps, board_size \in ArgSizes :
    /\ steps > 0 /\ board_size > 0
    /\ PositionMoveCall(value, steps, board_size)
    /\ last'.result.completed_round
    /\ ~(value + steps >= board_size)

\* C14, as stated: neither condition of the completed flag is sufficient
\* alone: some call with valid arguments returns the flag true with new < old
\* false, and some call with valid arguments returns the flag true with
\* old + steps >= board_size false.
C14_NeitherConditionAloneSuffices ==
  /\ ENABLED CompletedNotBelow
  /\ ENABLED CompletedNotPast

\* C14, amended: new < old alone is not sufficient (some call with valid
\* arguments returns the flag true with new < old false), but
\* old + steps >= board_size alone is: on every valid input the flag is true
\* if and only if old + steps >= board_size, and new < old implies it.
C14_WrapConditionAloneDecides ==
  /\ ENABLED CompletedNotBelow
  /\ ValidMove =>
        /\ last.result.completed_round <=> (last.value + last.steps >= last.board_size)
        /\ (last.result.value < last.value) => (last.value + last.steps >= last.board_size)

\* a move has just completed a round and landed on a value not below the old
\* one, the old value not being 0
C14_Witness ==
  /\ ValidMove
  /\ last.value > 0
  /\ last.result.completed_round
  /\ last.result.value >= last.value

(* ------------------------------- C15 ---------------------------------- *)
\* C15: with the dice fixed to d in 1..6 and a player starting at position 0
\* of a board of N > 6 positions, after k consecutive turns of the player the
\* position is (k * d) mod N, and turn k completed a round exactly when
\* floor(k * d / N) > floor((k - 1) * d / N); for d = 3 and N = 20 the
\* position is 15 after 5 turns and 1 after 7 turns, and the first completed
\* round is on turn 7.
C15_FixedDiceWalk ==
  last.op = "walk" =>
    LET d == last.steps
        N == last.board_size
        k == last.turn
    IN  /\ last.value = (k * d) % N
        /\ k >= 1 => (last.ret <=> ((k * d) \div N > ((k - 1) * d) \div N))
        /\ (d = 3 /\ N = NumProperties /\ k = 5) => (last.value = 15 /\ last.first = 0)
        /\ (d = 3 /\ N = NumProperties /\ k = 7) =>
              (last.value = 1 /\ last.ret /\ last.first = 7)

\* the seventh turn of the walk with dice 3 on 20 positions
C15_Witness ==
  /\ last.op = "walk"
  /\ last.steps = 3
  /\ last.board_size = NumProperties
  /\ last.turn = 7
  /\ last.value = 1

(* ------------------------------- C19 ---------------------------------- *)
\* the state of a game in progress: players, board ownership, game state and
\* the place play_game has reached
RunState ==
  [balance |-> balance, position |-> position, owned |-> owned,
   is_active |-> is_active, owners |-> owners, round_count |-> round_count,
   winner |-> winner, game_over |-> game_over, op |-> op, pc |-> pc,
   snapshot |-> snapshot, idx |-> idx]

\* the same, after the step
RunStateNext ==
  [balance |-> balance', position |-> position', owned |-> owned',
   is_active |-> is_active', owners |-> owners', round_count |-> round_count',
   winner |-> winner', game_over |-> game_over', op |-> op', pc |-> pc',
   snapshot |-> snapshot', idx |-> idx']

\* one step of play_game as a function of the state s, the next value d of the
\* dice sequence and the next decision r of the random strategy
PlayGameStep(s, d, r) ==
  CASE s.op = "none" ->
         [s EXCEPT !.op = "play_game", !.pc = "loop"]
    [] s.op # "none" /\ s.pc = "loop" ->
         IF s.game_over
         THEN [s EXCEPT !.op = "none", !.pc = "idle"]
         ELSE [s EXCEPT !.pc = "turns",
                        !.snapshot = GetActivePlayers(s.is_active),
                        !.idx = 1]
    [] s.op # "none" /\ s.pc = "turns" ->
         IF s.idx <= Len(s.snapshot)
         THEN LET g == PlayTurnOp([balance |-> s.balance, position |-> s.position,
                                   owned |-> s.owned, is_active |-> s.is_active,
                                   owners |-> s.owners],
                                  s.snapshot[s.idx], d, r)
              IN  [s EXCEPT !.balance = g.balance, !.position = g.position,
                            !.owned = g.owned, !.is_active = g.is_active,
                            !.owners = g.owners, !.idx = @ + 1]
         ELSE [s EXCEPT !.round_count = @ + 1, !.pc = "check",
                        !.snapshot = <<>>, !.idx = 0]
    [] s.op # "none" /\ s.pc = "check" ->
         LET c == CheckVictoryCondition(s.is_active, s.balance, s.round_count,
                                        s.winner, s.game_over)
         IN  [s EXCEPT !.winner = c.winner, !.game_over = c.game_over, !.pc = "loop"]

RECURSIVE SumOver(_, _)
\* the sum of f[w] over the workers w of set W
SumOver(f, W) ==
  IF W = {} THEN 0
  ELSE LET w == CHOOSE x \in W : TRUE
       IN  f[w] + SumOver(f, W \ {w})

\* over the batch results of all the workers, whatever their order: the wins of
\* strategy s, the number and the sum of the rounds of its wins, the rounds and
\* the timeouts of all the games
TotalWins(s) == SumOver([w \in Workers |-> sim.batch[w].strategy_wins[s]], sim.submitted)
TotalWinCount(s) ==
  SumOver([w \in Workers |-> Len(sim.batch[w].strategy_rounds_when_won[s])], sim.submitted)
TotalWinRounds(s) ==
  SumOver([w \in Workers |-> SumSeq(sim.batch[w].strategy_rounds_when_won[s])], sim.submitted)
TotalRounds == SumOver([w \in Workers |-> sim.batch[w].total_rounds], sim.submitted)
TotalTimeouts == SumOver([w \in Workers |-> sim.batch[w].total_timeouts], sim.submitted)

\* C20: the final batch statistics (per strategy the wins, the win rate and
\* the average rounds when won; the timeouts, the timeout rate, the average
\* rounds and the most winning strategy) are those of the set of batch results,
\* the same for every order in which the workers finish and are merged.
C20_StatisticsIndependentOfCompletionOrder ==
  sim.phase = "done" =>
    LET r == sim.result
        n == sim.num_simulations
    IN  /\ r.timeouts = TotalTimeouts
        /\ r.timeout_rate = Quotient(TotalTimeouts, n)
        /\ r.avg_rounds = Quotient(TotalRounds, n)
        /\ Len(r.strategy_statistics) = Len(DefaultRoster)
        /\ \A i \in 1..Len(DefaultRoster) :
              LET s == DefaultRoster[i]
              IN  /\ r.strategy_statistics[i].strategy = s
                  /\ r.strategy_statistics[i].wins = TotalWins(s)
                  /\ r.strategy_statistics[i].win_rate = Quotient(TotalWins(s), n)
                  /\ r.strategy_statistics[i].avg_rounds_when_won =
                       IF TotalWinCount(s) > 0
                       THEN Quotient(TotalWinRounds(s), TotalWinCount(s))
                       ELSE Quotient(0, 1)
        /\ IF \A s \in Strategies : TotalWins(s) = 0
           THEN r.most_winning_strategy = "none"
           ELSE \E i \in 1..Len(DefaultRoster) :
                  /\ r.most_winning_strategy = DefaultRoster[i]
                  /\ \A j \in 1..Len(DefaultRoster) :
                        /\ TotalWins(DefaultRoster[j]) <= TotalWins(DefaultRoster[i])
                        /\ j < i => TotalWins(DefaultRoster[j]) < TotalWins(DefaultRoster[i])

\* a batch is done whose workers were merged out of submission order, the
\* merged list of a strategy's rounds holding different values
C20_Witness ==
  /\ sim.phase = "done"
  /\ Len(sim.order) = Cardinality(Workers)
  /\ sim.order[1] > sim.order[2]
  /\ \E s \in Strategies :
       LET l == sim.acc.strategy_rounds_when_won[s]
       IN  Len(l) >= 2 /\ l[1] # l[Len(l)]

(* ------------------------------- C21 ---------------------------------- *)
\* the workers whose batch results have been merged
Merged == { sim.order[i] : i \in 1..Len(sim.order) }

\* in this step run_batch_simulation returns its result
BatchReturns == sim.phase = "collecting" /\ sim'.phase = "done"

\* C21: run_batch_simulation returns its result only in a step taken when
\* every submitted worker has completed and the batch result of each has been
\* merged once, the accumulators being the sums over all of them; while a
\* submitted worker has not completed no step returns a result and the return
\* is not enabled, so a worker that never completes leaves the batch
\* uncompleted for ever.
C21_ResultOnlyAfterAllWorkersMerged ==
  [][ /\ BatchReturns =>
           /\ sim.done = sim.submitted
           /\ Merged = sim.submitted
           /\ Len(sim.order) = Cardinality(sim.submitted)
           /\ sim.acc.total_rounds = TotalRounds
           /\ sim.acc.total_timeouts = TotalTimeouts
           /\ \A s \in Strategies : sim.acc.strategy_wins[s] = TotalWins(s)
      /\ (sim.phase = "collecting" /\ sim.done # sim.submitted) =>
           /\ sim'.phase # "done"
           /\ ~ ENABLED BatchFinish ]_vars

\* a batch of three workers is done, merged in the order of submission
C21_Witness ==
  /\ sim.phase = "done"
  /\ sim.order = <<1, 2, 3>>
  /\ sim.chunks[1] > sim.chunks[3]

(* ------------------------------- C22 ---------------------------------- *)
\* C22: a worker failure fails the batch: once a worker has failed no step
\* returns a result, and a finished batch has no failed worker; collecting the
\* failed future is possible and its exception leaves the collection, after
\* which nothing is merged, no result is built and the call can only raise
\* (when the workers still running have ended); nothing runs after the raise;
\* and the failed chunk is not run again: the worker stays failed, its batch
\* result stays empty and no future is submitted after the first submission.
C22_WorkerFailureFailsBatch ==
  [][ /\ sim.phase # "raised"
      /\ sim'.phase = "done" => sim'.failed = {}
      /\ sim.phase \in {"collecting", "raising"} =>
           /\ sim.failed # {} => sim'.phase # "done"
           /\ sim.failed \subseteq sim'.failed
           /\ sim'.submitted = sim.submitted
           /\ sim'.chunks = sim.chunks
           /\ \A w \in sim'.failed : sim'.batch[w] = EmptyBatch
      /\ sim.phase = "collecting" =>
           /\ \A w \in sim.failed \ Merged :
                ENABLED (CollectNext(w) /\ sim'.phase = "raising")
           /\ sim'.phase = "raising" => sim'.failed # {}
      /\ sim.phase = "raising" =>
           /\ sim'.phase \in {"raising", "raised"}
           /\ sim'.acc = sim.acc /\ sim'.order = sim.order
           /\ sim.done = sim.submitted => ENABLED (ExecutorShutdown /\ sim'.phase = "raised")
      /\ (sim.phase # "idle" /\ sim'.phase \in {"raising", "raised"}) =>
           /\ sim'.error = "worker"
           /\ "result" \notin DOMAIN sim' ]_vars

\* a batch has raised for a failed worker after the batch result of another
\* worker had been merged
C22_Witness ==
  /\ sim.phase = "raised"
  /\ sim.error = "worker"
  /\ sim.order # <<>>
  /\ \E s \in Strategies : sim.acc.strategy_wins[s] > 0

(* ------------------------------- C23 ---------------------------------- *)
\* C23: for num_simulations > 0 the chunks are num_workers sizes that sum to
\* num_simulations, differ by at most 1 and never increase, the first
\* num_simulations mod num_workers of them holding the extra game; a chunk of
\* size 0 is not submitted, with more workers than games the chunks past the
\* games are of size 0, every worker that completed has played the games of
\* its chunk, and all of them together num_simulations games.
C23_ChunksSplitCount ==
  (sim.phase # "idle" /\ sim.num_simulations > 0) =>
    LET n == sim.num_simulations
        k == sim.num_workers
        chunks == sim.chunks
    IN  /\ Len(chunks) = k
        /\ SumSeq(chunks) = n
        /\ \A i, j \in 1..k : chunks[i] - chunks[j] <= 1
        /\ \A i, j \in 1..k : i < j => chunks[i] >= chunks[j]
        /\ \A i \in 1..k : chunks[i] >= 0
        /\ \A i \in 1..k : (chunks[i] > chunks[k]) <=> (i <= n % k)
        /\ sim.submitted = { i \in 1..k : chunks[i] > 0 }
        /\ k > n => sim.submitted = 1..n
        /\ \A w \in sim.done \ sim.failed : sim.batch[w].num_simulations = chunks[w]
        /\ \A w \in Workers \ sim.submitted : sim.batch[w] = EmptyBatch
        /\ sim.phase = "done" =>
             SumOver([w \in Workers |-> sim.batch[w].num_simulations], sim.submitted) = n

\* a batch of fewer games than workers is done
C23_Witness ==
  /\ sim.phase = "done"
  /\ sim.num_workers > sim.num_simulations
  /\ sim.submitted # 1..sim.num_workers

(* ------------------------------- C24 ---------------------------------- *)
\* the sum of the wins reported by the strategy statistics of a batch result
ReportedWins(r) ==
  SumSeq([i \in 1..Len(r.strategy_statistics) |-> r.strategy_statistics[i].wins])

\* C24: in a batch result the wins of the strategies sum to at most
\* total_simulations, timeouts is at most total_simulations, a strategy
\* without a win reports avg_rounds_when_won 0; and a worker's batch result
\* holds at most one win per game it played.
C24_WinsAndTimeoutsBounded ==
  /\ sim.phase = "done" =>
       LET r == sim.result
       IN  /\ r.total_simulations = sim.num_simulations
           /\ ReportedWins(r) <= r.total_simulations
           /\ r.timeouts <= r.total_simulations
           /\ \A i \in 1..Len(r.strategy_statistics) :
                /\ r.strategy_statistics[i].wins >= 0
                /\ r.strategy_statistics[i].wins = 0 =>
                     r.strategy_statistics[i].avg_rounds_when_won = Quotient(0, 1)
  /\ sim.phase \in {"collecting", "done"} =>
       \A w \in sim.submitted :
          SumSeq([i \in 1..Len(DefaultRoster) |-> sim.batch[w].strategy_wins[DefaultRoster[i]]])
            <= sim.batch[w].num_simulations

\* a batch is done with a game nobody won, a strategy without a win and every
\* other game won
C24_Witness ==
  /\ sim.phase = "done"
  /\ ReportedWins(sim.result) = sim.result.total_simulations - 1
  /\ ReportedWins(sim.result) >= 2
  /\ sim.result.timeouts = sim.result.total_simulations

(* ------------------------------- C25 ---------------------------------- *)
\* C25: most_winning_strategy is none when every strategy of the result has 0
\* wins; otherwise it is the first strategy, in the order impulsive,
\* demanding, cautious, random, whose wins are the largest of the four.
C25_MostWinningIsFirstMaximum ==
  sim.phase = "done" =>
    LET r == sim.result
        stats == r.strategy_statistics
    IN  /\ [i \in 1..Len(stats) |-> stats[i].strategy]
             = <<"impulsive", "demanding", "cautious", "random">>
        /\ IF \A i \in 1..Len(stats) : stats[i].wins = 0
           THEN r.most_winning_strategy = "none"
           ELSE \E i \in 1..Len(stats) :
                  /\ r.most_winning_strategy = stats[i].strategy
                  /\ \A j \in 1..Len(stats) : stats[j].wins <= stats[i].wins
                  /\ \A j \in 1..(i - 1) : stats[j].wins < stats[i].wins

\* a batch is done in which impulsive and demanding tie with the most wins
C25_Witness ==
  /\ sim.phase = "done"
  /\ sim.result.strategy_statistics[1].wins = sim.result.strategy_statistics[2].wins
  /\ sim.result.strategy_statistics[1].wins > 0
  /\ sim.result.most_winning_strategy = "impulsive"

\* a batch is done in which nobody won a game
C25_WitnessNone ==
  /\ sim.phase = "done"
  /\ sim.result.most_winning_strategy = "none"

(* ------------------------------- C26 ---------------------------------- *)
\* C26: run_batch_simulation with num_simulations <= 0 raises a configuration
\* error at once: the call is then over with that error, no future was
\* submitted, no worker has run or can run, nothing can be collected or
\* returned, and no game has been played.
C26_NonPositiveCountRejected ==
  (sim.phase # "idle" /\ sim.num_simulations <= 0) =>
    /\ sim.phase = "raised"
    /\ sim.error = "GameConfigurationError"
    /\ sim.submitted = {}
    /\ sim.done = {}
    /\ sim.order = <<>>
    /\ \A w \in Workers : sim.batch[w] = EmptyBatch
    /\ sim.acc = EmptyBatch
    /\ "result" \notin DOMAIN sim
    /\ ~ ENABLED NextBatch
    /\ round_count = 0 /\ ~game_over /\ last = NoCall

\* run_batch_simulation was called with a negative num_simulations
C26_Witness ==
  /\ sim.phase = "raised"
  /\ sim.num_simulations < 0
  /\ sim.num_workers > 1

(* ------------------------------- C27 ---------------------------------- *)
\* this step is a call of repository method name that did not raise
RepositoryCall(name) ==
  /\ last'.op = name
  /\ calls' = calls + 1
  /\ last'.error = "none"

\* C27: a set_owner(pos, x) that does not raise leaves get_property(pos)
\* reporting owner x (None for x = None), the owner of every other position,
\* the cost and the rent reported for every position and size() as before,
\* and the players untouched; a get_property(pos) returns the cost and rent of
\* pos with its current owner and changes nothing; neither do get_owner and
\* size.
C27_SetOwnerChangesOnlyItsEntry ==
  [][ /\ RepositoryCall("set_owner") =>
           LET pos == last'.pos
           IN  /\ GetProperty(properties', owners', pos).owner = last'.owner
               /\ GetOwner(owners', pos) = last'.owner
               /\ \A q \in Positions \ {pos} : owners'[q] = owners[q]
               /\ \A q \in Positions :
                    /\ GetProperty(properties', owners', q).cost
                         = GetProperty(properties, owners, q).cost
                    /\ GetProperty(properties', owners', q).rent
                         = GetProperty(properties, owners, q).rent
               /\ DOMAIN owners' = DOMAIN owners
               /\ Size(properties') = Size(properties)
               /\ UNCHANGED <<properties, balance, position, owned, is_active>>
      /\ RepositoryCall("get_property") =>
           /\ last'.result = [cost |-> properties[last'.pos].cost,
                              rent |-> properties[last'.pos].rent,
                              owner |-> owners[last'.pos]]
           /\ UNCHANGED <<properties, owners, balance, position, owned, is_active>>
      /\ (RepositoryCall("get_owner") \/ RepositoryCall("size")) =>
           UNCHANGED <<properties, owners>> ]_vars

\* the owner of a position was set back to None while another position of the
\* same cost and rent keeps its owner
C27_Witness ==
  /\ last.op = "set_owner"
  /\ last.error = "none"
  /\ last.owner = None
  /\ \E q \in Positions \ {last.pos} :
       /\ owners[q] # None
       /\ properties[q] = properties[last.pos]

(* ------------------------------- C28 ---------------------------------- *)
\* C28: get_property, set_owner and get_owner raise IndexError exactly for
\* pos < 0 or pos >= size(), and the call that raises leaves the ownership
\* map and the properties unchanged.
C28_OutOfRangeIsBoundsError ==
  [][ (last'.op \in {"get_property", "set_owner", "get_owner"} /\ calls' = calls + 1) =>
        /\ (last'.pos < 0 \/ last'.pos >= Size(properties)) <=> last'.error = "IndexError"
        /\ last'.error \in {"IndexError", "none"}
        /\ last'.error = "IndexError" =>
             /\ owners' = owners
             /\ properties' = properties
             /\ "result" \notin DOMAIN last' ]_vars

\* set_owner raised for the position size() on a repository that has an owner
C28_Witness ==
  /\ last.op = "set_owner"
  /\ last.error = "IndexError"
  /\ last.pos = Size(properties)
  /\ last.owner # None
  /\ \E q \in Positions : owners[q] # None

\* get_property raised for a negative position
C28_WitnessNegative ==
  /\ last.op = "get_property"
  /\ last.error = "IndexError"
  /\ last.pos < 0

(* ------------------------------- C29 ---------------------------------- *)
\* C29: a GameState or GameEngine constructed with an empty players list, with
\* no board, or (GameState) with max_rounds <= 0 raises GameConfigurationError
\* and no state exists; constructed with players, a board and max_rounds > 0
\* it does not raise and the state has round_count 0, no winner, game_over
\* false and the players, board and max_rounds it was given (the engine's
\* max_rounds is the configured one).
C29_ConstructionValidatesArguments ==
  last.op \in {"GameState", "GameEngine"} =>
    IF Len(last.players) = 0 \/ last.board = NoBoard \/ last.max_rounds <= 0
    THEN /\ last.error = "GameConfigurationError"
         /\ "state" \notin DOMAIN last
    ELSE /\ last.error = "none"
         /\ last.state.round_count = 0
         /\ last.state.winner = None
         /\ last.state.game_over = FALSE
         /\ last.state.players = last.players
         /\ last.state.board = last.board
         /\ last.state.max_rounds = last.max_rounds
         /\ last.op = "GameEngine" => last.state.max_rounds = MaxRounds

\* a GameState with players and a board was refused for max_rounds = 0
C29_Witness ==
  /\ last.op = "GameState"
  /\ last.error = "GameConfigurationError"
  /\ last.players # <<>>
  /\ last.board # NoBoard
  /\ last.max_rounds = 0

\* an engine was constructed
C29_WitnessEngine ==
  /\ last.op = "GameEngine"
  /\ last.error = "none"
  /\ last.state.round_count = 0

(* ------------------------------- C30 ---------------------------------- *)
\* C30: no step removes a player from the roster or changes its strategy, and
\* an inactive player stays as it is: in every step from a state where player
\* p is inactive, p is inactive afterwards with the same balance, position and
\* owned list, and a play_turn(p) made in that step rolled no dice.
C30_InactivePlayerIsFrozen ==
  [][ /\ DOMAIN is_active' = DOMAIN is_active
      /\ DOMAIN balance' = DOMAIN balance
      /\ strategy' = strategy
      /\ \A p \in Players :
           ~is_active[p] =>
             /\ ~is_active'[p]
             /\ balance'[p] = balance[p]
             /\ position'[p] = position[p]
             /\ owned'[p] = owned[p]
             /\ (last'.op = "play_turn" /\ last'.player = p /\ calls' = calls + 1) =>
                  last'.steps = 0 ]_vars

\* play_turn was called on a player eliminated in a game that went on, while a
\* position of the board still names that player as its owner
C30_Witness ==
  /\ last.op = "play_turn"
  /\ last.steps = 0
  /\ ~is_active[last.player]
  /\ calls > 0
  /\ round_count > 0
  /\ \E pos \in Positions : owners[pos] = last.player

(* ------------------------------- C31 ---------------------------------- *)
\* C31: a turn of an active player p that rolled steps moves p first and
\* credits the salary of a completed round, then resolves the landing at the
\* new position with the balance that holds the salary (the purchase is
\* afforded from it, the rent is debited from it), then tests the balance for
\* the elimination: p stays active exactly when the balance after the salary
\* and the landing is not negative; so a player whose balance is below the
\* rent but reaches it with the salary stays active.
C31_SalaryBeforeLanding ==
  [][ \A p \in Players, steps \in Dice :
        (TurnStep(p, steps) /\ is_active[p]) =>
          LET pos   == LandingOf(p, steps)
              b1    == balance[p] + SalaryOf(p, steps)
              prop  == properties[pos]
              owner == owners[pos]
          IN  /\ position'[p] = pos
              /\ owner = None =>
                   /\ balance'[p] \in {b1, b1 - prop.cost}
                   /\ balance'[p] = b1 - prop.cost =>
                        (b1 >= prop.cost /\ owners'[pos] = p)
                   /\ balance'[p] = b1 => owners'[pos] = None
                   /\ strategy[p] = "impulsive" =>
                        (balance'[p] = b1 - prop.cost <=> b1 >= prop.cost)
              /\ owner = p => balance'[p] = b1
              /\ owner \notin {None, p} => balance'[p] = b1 - prop.rent
              /\ is_active'[p] <=> balance'[p] >= 0
              /\ (owner \notin {None, p} /\ balance[p] < prop.rent /\ b1 >= prop.rent) =>
                   is_active'[p] ]_vars

\* a player has completed a round and paid a rent that its balance before the
\* salary did not cover, and is still active
C31_Witness ==
  /\ last.op = "play_turn"
  /\ last.steps > 0
  /\ LET p == last.player
     IN  /\ is_active[p]
         /\ position[p] < last.steps
         /\ owners[position[p]] \notin {None, p}
         /\ is_active[owners[position[p]]]
         /\ balance[p] < RoundSalary
         /\ properties[position[p]].rent > 0

(* ------------------------------- C32 ---------------------------------- *)
\* C32: in play_game the victory condition is evaluated only between rounds:
\* no step taken inside a round (a turn, or the end of the round) changes
\* game_over or winner; they change only in the check that follows a completed
\* round; and while players of the round's snapshot are left, the next step is
\* the turn of the next of them, however few players are still active.
C32_VictoryOnlyAfterCompleteRound ==
  [][ /\ pc = "turns" => (game_over' = game_over /\ winner' = winner /\ ~game_over)
      /\ (game_over' # game_over \/ winner' # winner) =>
           /\ pc = "check"
           /\ last.op = "round_end"
           /\ snapshot = <<>>
           /\ last'.op = "check_victory_condition"
      /\ (pc = "turns" /\ idx <= Len(snapshot)) =>
           /\ last'.op = "play_turn"
           /\ last'.player = snapshot[idx]
           /\ idx' = idx + 1
           /\ pc' = "turns"
           /\ snapshot' = snapshot ]_vars

\* inside a round an elimination left at most one active player, and the last
\* player of the snapshot has taken its turn after that, the game not over
C32_Witness ==
  /\ op = "play_game"
  /\ pc = "turns"
  /\ Len(snapshot) >= 2
  /\ idx = Len(snapshot) + 1
  /\ last.op = "play_turn"
  /\ last.player = snapshot[Len(snapshot)]
  /\ last.steps > 0
  /\ \E i \in 1..(Len(snapshot) - 1) : ~is_active[snapshot[i]]
  /\ Cardinality(ActiveSet) <= 1
  /\ ~game_over

(* ------------------------------- C33 ---------------------------------- *)
\* C33: a turn that lands player p on a position whose recorded owner is p
\* changes nothing but p's position and, for a completed round, p's balance by
\* the salary: no other balance, no owned list, no ownership entry and no
\* active flag changes.
C33_LandingOnOwnPropertyIsNoOp ==
  [][ \A p \in Players, steps \in Dice :
        (TurnStep(p, steps) /\ is_active[p] /\ owners[LandingOf(p, steps)] = p) =>
          /\ position'[p] = LandingOf(p, steps)
          /\ balance' = [balance EXCEPT ![p] = @ + SalaryOf(p, steps)]
          /\ owned' = owned
          /\ owners' = owners
          /\ is_active' = is_active ]_vars

\* a player stands after its turn on a position it owns and had bought before
\* its latest purchase, with a balance that covers the cost
C33_Witness ==
  /\ last.op = "play_turn"
  /\ last.steps > 0
  /\ LET p == last.player
     IN  /\ owners[position[p]] = p
         /\ Len(owned[p]) >= 2
         /\ owned[p][Len(owned[p])] # properties[position[p]]
         /\ balance[p] >= properties[position[p]].cost

(* ------------------------------- C34 ---------------------------------- *)
\* the positions with the cost and rent of prop
SameKind(prop) ==
  { pos \in Positions : properties[pos].cost = prop.cost /\ properties[pos].rent = prop.rent }

\* the positions recorded as owned by player p
OwnedPositions(p) == { pos \in Positions : owners[pos] = p }

\* C34: the turn that eliminates player p clears, for each property of p's
\* owned list, the first position in board order with that cost and rent,
\* whoever is recorded as its owner, and no other position: with two positions
\* of the same cost and rent this resets a position of another player and
\* leaves p recorded as owner of its own position (the witness reaches it).
C34_ReleaseClearsFirstMatchingSlot ==
  [][ \A p \in Players :
        (last'.op = "play_turn" /\ last'.player = p /\ is_active[p] /\ ~is_active'[p]) =>
          LET cleared == { pos \in Positions :
                             \E i \in 1..Len(owned[p]) :
                                /\ pos \in SameKind(owned[p][i])
                                /\ \A q \in SameKind(owned[p][i]) : pos <= q }
          IN  /\ owners' = [pos \in Positions |->
                              IF pos \in cleared THEN None ELSE owners[pos]]
              /\ owned'[p] = <<>> ]_vars

\* the one player eliminated so far is still recorded as owner of a position,
\* and another player, still active, has lost the record of a position of the
\* same cost and rent that is in its owned list
C34_Witness ==
  /\ last.op = "play_turn"
  /\ ~is_active[last.player]
  /\ Cardinality(ActiveSet) = NumPlayers - 1
  /\ \E pos \in OwnedPositions(last.player), q \in ActiveSet :
       /\ Cardinality(OwnedPositions(q)) < Len(owned[q])
       /\ \E i \in 1..Len(owned[q]) : owned[q][i] = properties[pos]
       /\ \E r \in SameKind(properties[pos]) : r < pos /\ owners[r] = None

(* ------------------------------- C35 ---------------------------------- *)
\* each player is active exactly when its balance is not negative
ActiveIffSolvent(act, bal) == \A p \in Players : act[p] <=> bal[p] >= 0

\* C35: before and after every step of a game each player is active exactly
\* when its balance is >= 0; a turn that lands on an unowned or an own
\* position leaves the balance >= 0, so a balance becomes negative only in a
\* turn that pays rent, and only the balance of the player whose turn it is;
\* and that player is inactive after the turn.
C35_ActiveIffBalanceNotNegative ==
  [][ /\ ActiveIffSolvent(is_active, balance)
      /\ ActiveIffSolvent(is_active', balance')
      /\ \A p \in Players :
           (balance[p] >= 0 /\ balance'[p] < 0) =>
             /\ last'.op = "play_turn"
             /\ last'.player = p
             /\ last'.steps \in Dice
             /\ owners[LandingOf(p, last'.steps)] \notin {None, p}
             /\ balance'[p] = balance[p] + SalaryOf(p, last'.steps)
                                - properties[LandingOf(p, last'.steps)].rent
             /\ ~is_active'[p] ]_vars

\* a turn has ended with an eliminated player of negative balance and an
\* active player whose purchases took its balance to exactly 0
C35_Witness ==
  /\ last.op = "play_turn"
  /\ \E q \in Players : ~is_active[q] /\ balance[q] < 0
  /\ \E p \in Players : is_active[p] /\ balance[p] = 0 /\ owned[p] # <<>>

(* ------------------------------- C36 ---------------------------------- *)
\* C36: the active flag of a player changes only in a turn of that player,
\* taken while it was active: the turn of a player changes the flag of no
\* other player; so inside a round every player of the snapshot whose turn is
\* still to come is active.
C36_InactiveOnlyInOwnTurn ==
  [][ /\ \A p \in Players :
           is_active'[p] # is_active[p] =>
             /\ last'.op = "play_turn"
             /\ last'.player = p
             /\ is_active[p]
             /\ last'.steps \in Dice
      /\ pc = "turns" =>
           \A i \in idx..Len(snapshot) : is_active[snapshot[i]] ]_vars

\* inside a round a player of the snapshot has been eliminated in its turn by
\* the rent of a player that follows it in the snapshot, and the players
\* whose turn is to come are active
C36_Witness ==
  /\ pc = "turns"
  /\ last.op = "play_turn"
  /\ ~is_active[last.player]
  /\ idx <= Len(snapshot)
  /\ last.player = snapshot[idx - 1]
  /\ \A i \in idx..Len(snapshot) : is_active[snapshot[i]]
  /\ \E i \in idx..Len(snapshot) : owners[position[last.player]] = snapshot[i]

(* ------------------------------- C37 ---------------------------------- *)
\* C37: for every player the number of positions recorded as owned by the
\* player equals the length of the player's owned list; an inactive player
\* owns no position and has an empty list.
C37_OwnershipMapAgreesWithOwnedLists ==
  \A p \in Players :
     /\ Cardinality(OwnedPositions(p)) = Len(owned[p])
     /\ ~is_active[p] => (OwnedPositions(p) = {} /\ owned[p] = <<>>)

(* ------------------------------- C38 ---------------------------------- *)
\* C38: on a board of pairwise distinct (cost, rent) pairs every state of
\* play_game has an active player, and a finished game has a winner (no
\* draw): every recorded owner is active and owns the property in its list,
\* so when one player is left no position is owned by anyone else and that
\* player cannot be charged rent.
C38_DistinctBoardNeverDraws ==
  /\ \A i, j \in Positions :
        i # j => properties[i] # properties[j]
  /\ ActiveSet # {}
  /\ game_over => (winner # None /\ is_active[winner])
  /\ \A pos \in Positions :
        owners[pos] # None =>
          /\ is_active[owners[pos]]
          /\ \E i \in 1..Len(owned[owners[pos]]) : owned[owners[pos]][i] = properties[pos]
  /\ Cardinality(ActiveSet) = 1 =>
        \A pos \in Positions : owners[pos] \in ActiveSet \cup {None}

\* a game has returned before the round limit with one player left, all the
\* others eliminated and their positions released
C38_Witness ==
  /\ Returned
  /\ Cardinality(ActiveSet) = 1
  /\ round_count < MaxRounds
  /\ winner \in ActiveSet
  /\ \E pos \in Positions : owners[pos] = winner
  /\ \E pos \in Positions : owners[pos] = None /\ properties[pos].rent > 0

(* ------------------------------- C39 ---------------------------------- *)
\* C39: in every state where play_game has set game_over, and so in the state
\* it returns in, the winner when set is a player of the roster, active and
\* with a balance >= 0, and the winner is None exactly when no player is
\* active.
C39_WinnerIsActiveAndSolvent ==
  game_over =>
    /\ winner \in Players \cup {None}
    /\ winner # None => (is_active[winner] /\ balance[winner] >= 0)
    /\ winner = None <=> ActiveSet = {}

\* play_game has returned at the round limit with a winner, another player
\* active and a player eliminated
C39_Witness ==
  /\ Returned
  /\ game_over
  /\ winner # None
  /\ round_count = MaxRounds
  /\ Cardinality(ActiveSet) = 2
  /\ \E q \in ActiveSet \ {winner} : balance[q] = balance[winner]

\* play_game has returned with no winner and no active player
C39_WitnessDraw ==
  /\ Returned
  /\ winner = None
  /\ ActiveSet = {}

(* ------------------------------- C40 ---------------------------------- *)
\* the sum of the balances bal of all the players
TotalBalance(bal) == SumOver(bal, Players)

\* C40: a turn of player p that lands on a position of another, active, owner
\* changes the sum of all balances by the salary of the move and nothing
\* else: the rent leaves p and reaches the owner; a turn that lands on a
\* position of an inactive owner loses the rent, a turn on an unowned position
\* loses the cost when it buys, a turn on an own position changes the sum by
\* the salary only; and no other step changes any balance.
C40_RentConservesMoney ==
  [][ /\ \A p \in Players, steps \in Dice :
           (TurnStep(p, steps) /\ is_active[p]) =>
             LET pos   == LandingOf(p, steps)
                 owner == owners[pos]
                 base  == TotalBalance(balance) + SalaryOf(p, steps)
             IN  /\ (owner \notin {None, p} /\ is_active[owner]) =>
                      /\ TotalBalance(balance') = base
                      /\ balance'[owner] = balance[owner] + properties[pos].rent
                      /\ balance'[p] = balance[p] + SalaryOf(p, steps) - properties[pos].rent
                 /\ (owner \notin {None, p} /\ ~is_active[owner]) =>
                      TotalBalance(balance') = base - properties[pos].rent
                 /\ owner = p => TotalBalance(balance') = base
                 /\ owner = None =>
                      \/ TotalBalance(balance') = base /\ owners'[pos] = None
                      \/ TotalBalance(balance') = base - properties[pos].cost /\ owners'[pos] = p
      /\ (last'.op # "play_turn" \/ last'.steps = 0) => balance' = balance ]_vars

\* a turn has paid a rent to an active owner and left payer and owner active,
\* the owner richer than it started
C40_Witness ==
  /\ last.op = "play_turn"
  /\ last.steps > 0
  /\ is_active[last.player]
  /\ LET owner == owners[position[last.player]]
     IN  /\ owner \notin {None, last.player}
         /\ is_active[owner]
         /\ properties[position[last.player]].rent > 0
         /\ balance[owner] > InitialBalance
         /\ Len(owned[owner]) = 1

====
